---- MODULE Spec2Model ----
(***************************************************************************)
(* Model of ladybug's BaseCollection (src/ladybug/_datacollectionbase.py)  *)
(* and of the Illuminance data type (src/ladybug/datatype/illuminance.py). *)
(*                                                                         *)
(* A Python string is a sequence of one-character strings, so that         *)
(* str.lower, str.replace, str.isalpha and eval act on its characters.     *)
(* Two program variables x and y (the slots of `colls`) hold collections;  *)
(* `ret` holds what the last call returned or raised.                      *)
(***************************************************************************)
EXTENDS Integers, Sequences, FiniteSets, TLC

\* ------------------------------------------------------------------ bounds

\* Longest values / datetimes sequence a caller passes in.
MaxLen == 2

\* Largest value a collection is converted from where conversions can repeat
\* without end.
MaxValue == 10

\* Most values of a collection whose order statistics are taken
MaxStatLen == 4

\* ------------------------------------------------------- Python strings

ascii_lowercase ==
  << "a", "b", "c", "d", "e", "f", "g", "h", "i", "j", "k", "l", "m",
     "n", "o", "p", "q", "r", "s", "t", "u", "v", "w", "x", "y", "z" >>

ascii_uppercase ==
  << "A", "B", "C", "D", "E", "F", "G", "H", "I", "J", "K", "L", "M",
     "N", "O", "P", "Q", "R", "S", "T", "U", "V", "W", "X", "Y", "Z" >>

Digits == << "0", "1", "2", "3", "4", "5", "6", "7", "8", "9" >>

Range(f) == { f[i] : i \in DOMAIN f }

\* str.isalpha on one character
IsAlpha(ch) == ch \in Range(ascii_lowercase) \cup Range(ascii_uppercase)

IsDigit(ch) == ch \in Range(Digits)

DigitVal(ch) == (CHOOSE i \in DOMAIN Digits : Digits[i] = ch) - 1

LowerChar(ch) ==
  IF ch \in Range(ascii_uppercase)
  THEN ascii_lowercase[CHOOSE i \in DOMAIN ascii_uppercase : ascii_uppercase[i] = ch]
  ELSE ch

\* str.lower
Lower(s) == [i \in DOMAIN s |-> LowerChar(s[i])]

\* does `pat` occur in `s` at position i
OccursAt(s, i, pat) ==
  /\ i + Len(pat) - 1 <= Len(s)
  /\ \A j \in 1..Len(pat) : s[i + j - 1] = pat[j]

RECURSIVE ReplaceFrom(_, _, _, _)
ReplaceFrom(s, i, old, new) ==
  IF i > Len(s) THEN << >>
  ELSE IF OccursAt(s, i, old) THEN new \o ReplaceFrom(s, i + Len(old), old, new)
  ELSE << s[i] >> \o ReplaceFrom(s, i + 1, old, new)

\* str.replace(old, new) for a non-empty `old`: leftmost, non-overlapping
Replace(s, old, new) == ReplaceFrom(s, 1, old, new)

RECURSIVE StrNat(_)
StrNat(n) == IF n < 10 THEN << Digits[n + 1] >>
             ELSE StrNat(n \div 10) \o << Digits[(n % 10) + 1] >>

\* str(n) of a Python int
Str(n) == IF n < 0 THEN << "-" >> \o StrNat(-n) ELSE StrNat(n)

\* --------------------------------------------------------- Python eval
\* eval(text, env) for the expression grammar the statements below need:
\*   or_test    : and_test ('or' and_test)*
\*   and_test   : not_test ('and' not_test)*
\*   not_test   : 'not' not_test | comparison
\*   comparison : arith (('>'|'<'|'>='|'<='|'=='|'!=') arith)*
\*   arith      : term (('+'|'-') term)*
\*   term       : factor (('*'|'%') factor)*
\*   factor     : '-' factor | power
\*   power      : atom ['**' factor]
\*   atom       : NUMBER | NAME | '(' or_test ')'
\* over Python ints and bools. `env` maps one-character names to ints; any
\* other name is unbound. A result is [k, b, v]: k is "ok" or the exception,
\* b says the value is a bool, v is the value (a bool as 0 / 1).

TwoCharOps == { << "*", "*" >>, << "=", "=" >>, << ">", "=" >>, << "<", "=" >>,
                << "!", "=" >> }

OneCharOps == { "+", "-", "*", "%", ">", "<", "(", ")" }

IsNameChar(ch) == IsAlpha(ch) \/ IsDigit(ch) \/ ch = "_"

RECURSIVE RunEnd(_, _, _)
\* last position of the run of digits (isName = FALSE) or name characters from i
RunEnd(s, i, isName) ==
  IF i + 1 <= Len(s) /\ (IF isName THEN IsNameChar(s[i + 1]) ELSE IsDigit(s[i + 1]))
  THEN RunEnd(s, i + 1, isName) ELSE i

RECURSIVE NumVal(_, _, _)
NumVal(s, i, j) == IF j < i THEN 0 ELSE NumVal(s, i, j - 1) * 10 + DigitVal(s[j])

Tok(t, n, s) == [t |-> t, n |-> n, s |-> s]

EndTok == Tok("end", 0, << >>)

RECURSIVE Tokens(_, _)
Tokens(s, i) ==
  IF i > Len(s) THEN << >>
  ELSE IF s[i] = " " THEN Tokens(s, i + 1)
  ELSE IF IsDigit(s[i]) THEN
    LET j == RunEnd(s, i, FALSE)
    IN  IF j + 1 <= Len(s) /\ (IsAlpha(s[j + 1]) \/ s[j + 1] = "_")
        THEN << Tok("bad", 0, << >>) >>
        ELSE << Tok("num", NumVal(s, i, j), << >>) >> \o Tokens(s, j + 1)
  ELSE IF IsAlpha(s[i]) \/ s[i] = "_" THEN
    LET j == RunEnd(s, i, TRUE)
    IN  << Tok("id", 0, SubSeq(s, i, j)) >> \o Tokens(s, j + 1)
  ELSE IF i + 1 <= Len(s) /\ << s[i], s[i + 1] >> \in TwoCharOps THEN
    << Tok("op", 0, << s[i], s[i + 1] >>) >> \o Tokens(s, i + 2)
  ELSE IF s[i] \in OneCharOps THEN
    << Tok("op", 0, << s[i] >>) >> \o Tokens(s, i + 1)
  ELSE << Tok("bad", 0, << >>) >>

Peek(ts, p) == IF p <= Len(ts) THEN ts[p] ELSE EndTok

IsOp(tk, chars) == tk.t = "op" /\ tk.s = chars

IsKw(tk, chars) == tk.t = "id" /\ tk.s = chars

Keywords == { << "a", "n", "d" >>, << "o", "r" >>, << "n", "o", "t" >>,
              << "i", "n" >>, << "i", "s" >> }

\* a parse result: outcome k, bool flag b, value v, next position p
PR(k, b, v, p) == [k |-> k, b |-> b, v |-> v, p |-> p]

Syn == PR("SyntaxError", FALSE, 0, 0)

RECURSIVE PowInt(_, _)
PowInt(x, n) == IF n = 0 THEN 1 ELSE x * PowInt(x, n - 1)

CompOps == { << ">" >>, << "<" >>, << ">", "=" >>, << "<", "=" >>,
             << "=", "=" >>, << "!", "=" >> }

Compare(op, x, y) ==
  CASE op = << ">" >> -> x > y
    [] op = << "<" >> -> x < y
    [] op = << ">", "=" >> -> x >= y
    [] op = << "<", "=" >> -> x <= y
    [] op = << "=", "=" >> -> x = y
    [] op = << "!", "=" >> -> x # y

B2I(b) == IF b THEN 1 ELSE 0

\* The grammar's levels: 1 or_test, 2 and_test, 3 not_test, 4 comparison,
\* 5 arith, 6 term, 7 factor, 8 power, 9 atom.

\* is tk a binary operator of level lv
OpAt(lv, tk) ==
  CASE lv = 1 -> IsKw(tk, << "o", "r" >>)
    [] lv = 2 -> IsKw(tk, << "a", "n", "d" >>)
    [] lv = 4 -> tk.t = "op" /\ tk.s \in CompOps
    [] lv = 5 -> IsOp(tk, << "+" >>) \/ IsOp(tk, << "-" >>)
    [] lv = 6 -> IsOp(tk, << "*" >>) \/ IsOp(tk, << "%" >>)
    [] OTHER -> FALSE

\* is tk the prefix operator of level lv
PrefixAt(lv, tk) ==
  (lv = 3 /\ IsKw(tk, << "n", "o", "t" >>)) \/ (lv = 7 /\ IsOp(tk, << "-" >>))

\* the value of `acc tk r` at level lv, r parsed without a syntax error.
\* `x or y` is x when x is true (y is not evaluated), else y; `x and y` is x when
\* x is false, else y; a chain x < y < z is (x < y) and (y < z), `last` being y
\* and `started` saying acc is already a comparison's value; Python's % takes
\* the sign of the divisor, and only positive divisors are modelled.
Step(lv, tk, acc, last, r, started) ==
  IF acc.k # "ok" THEN PR(acc.k, FALSE, 0, r.p)
  ELSE CASE lv = 1 -> IF acc.v # 0 THEN PR("ok", acc.b, acc.v, r.p) ELSE r
         [] lv = 2 -> IF acc.v = 0 THEN PR("ok", acc.b, acc.v, r.p) ELSE r
         [] lv = 4 -> IF started /\ acc.v = 0 THEN PR("ok", TRUE, 0, r.p)
                      ELSE IF r.k # "ok" THEN r
                      ELSE PR("ok", TRUE, B2I(Compare(tk.s, last.v, r.v)), r.p)
         [] lv = 5 -> IF r.k # "ok" THEN r
                      ELSE IF IsOp(tk, << "+" >>) THEN PR("ok", FALSE, acc.v + r.v, r.p)
                      ELSE PR("ok", FALSE, acc.v - r.v, r.p)
         [] lv = 6 -> IF r.k # "ok" THEN r
                      ELSE IF IsOp(tk, << "*" >>) THEN PR("ok", FALSE, acc.v * r.v, r.p)
                      ELSE IF r.v > 0 THEN PR("ok", FALSE, acc.v % r.v, r.p)
                      ELSE PR("Unsupported", FALSE, 0, r.p)

\* `not r` (level 3) or `-r` (level 7)
Unary(lv, r) ==
  IF r.k # "ok" THEN r
  ELSE IF lv = 3 THEN PR("ok", TRUE, B2I(r.v = 0), r.p)
  ELSE PR("ok", FALSE, -r.v, r.p)

\* l ** r; a negative exponent gives a float, which is not modelled
PowerOf(l, r) ==
  IF r.k = "SyntaxError" THEN Syn
  ELSE IF l.k # "ok" THEN PR(l.k, FALSE, 0, r.p)
  ELSE IF r.k # "ok" THEN r
  ELSE IF r.v < 0 THEN PR("Unsupported", FALSE, 0, r.p)
  ELSE PR("ok", FALSE, PowInt(l.v, r.v), r.p)

RECURSIVE Expr(_, _, _, _), Loop(_, _, _, _, _, _)

\* the expression of level lv that starts at token p
Expr(ts, p, env, lv) ==
  LET tk == Peek(ts, p)
  IN  IF lv = 9 THEN
        CASE tk.t = "num" -> PR("ok", FALSE, tk.n, p + 1)
          [] tk.t = "id" /\ tk.s \notin Keywords ->
               IF Len(tk.s) = 1 /\ tk.s[1] \in DOMAIN env
               THEN PR("ok", FALSE, env[tk.s[1]], p + 1)
               ELSE PR("NameError", FALSE, 0, p + 1)
          [] IsOp(tk, << "(" >>) ->
               LET e == Expr(ts, p + 1, env, 1)
               IN  IF e.k = "SyntaxError" \/ ~IsOp(Peek(ts, e.p), << ")" >>) THEN Syn
                   ELSE PR(e.k, e.b, e.v, e.p + 1)
          [] OTHER -> Syn
      ELSE
        LET pre == PrefixAt(lv, tk)
            sub == Expr(ts, IF pre THEN p + 1 ELSE p, env, IF pre THEN lv ELSE lv + 1)
        IN  IF sub.k = "SyntaxError" THEN Syn
            ELSE IF lv \in { 3, 7 } THEN (IF pre THEN Unary(lv, sub) ELSE sub)
            ELSE IF lv = 8
            THEN IF IsOp(Peek(ts, sub.p), << "*", "*" >>)
                 THEN PowerOf(sub, Expr(ts, sub.p + 1, env, 7))
                 ELSE sub
            ELSE Loop(ts, sub, sub, env, lv, FALSE)

\* the rest of a level-lv expression whose value so far is acc
Loop(ts, acc, last, env, lv, started) ==
  IF ~OpAt(lv, Peek(ts, acc.p)) THEN acc
  ELSE LET r == Expr(ts, acc.p + 1, env, lv + 1)
       IN  IF r.k = "SyntaxError" THEN Syn
           ELSE Loop(ts, Step(lv, Peek(ts, acc.p), acc, last, r, started), r, env, lv, TRUE)

\* eval(text, env): [k, b, v]
Eval(text, env) ==
  LET ts == Tokens(text, 1)
      e  == Expr(ts, 1, env, 1)
  IN  IF e.k = "SyntaxError" \/ e.p # Len(ts) + 1
      THEN [k |-> "SyntaxError", b |-> FALSE, v |-> 0]
      ELSE [k |-> e.k, b |-> e.b, v |-> e.v]

\* the empty environment of eval(text, {})
NoEnv == [n \in {} |-> 0]

\* ---------------------------------------------------------- the objects

\* the program variables that hold collections
Names == { "x", "y" }

\* header instances (object identities): one per variable, one per collection
\* of a returned list, one being built
HdrIds == 1 .. (Cardinality(Names) + 3)

\* the numbers callers put in collections
Vals == { -2, 3 }

\* a Python argument: a list, a number, or a str
List(items) == [kind |-> "list", items |-> items]

Scalar(v) == [kind |-> "int", items |-> << v >>]

AStr == [kind |-> "str", items |-> << >>]

\* a number passed where a sequence is expected
AnInt == [kind |-> "int", items |-> << >>]

\* a dict passed where a sequence is expected
ADict == [kind |-> "dict", items |-> << >>]

\* isinstance(v, Iterable) and not isinstance(v, (str, dict, bytes, bytearray))
IsSequence(v) == v.kind \in { "list", "tuple" }

SeqsUpTo(S, n) == UNION { [1..k -> S] : k \in 0..n }

\* the concrete collection classes: a _collection_type tag and a _mutable flag
Classes == [ctype : { "Hourly", "Daily" }, mutable : BOOLEAN]

Units == { "lux", "fc" }

NoColl == [ctype |-> "none"]

NoHdr == [data_type |-> "none", unit |-> "none"]

VARIABLES
  colls,   \* variable name -> the collection it holds, or NoColl
  hdrs,    \* header instance -> its fields, or NoHdr when no such instance lives
  ret      \* the last call: its name, arguments, what it returned or raised

vars == << colls, hdrs, ret >>

Exists(n) == colls[n] # NoColl

\* an exception with its message lines, or none (err = "")
Raise(err, msg) == [err |-> err, msg |-> msg]

Ok == Raise("", << >>)

EmptyMsg == "Data Collection must include at least one value"

LengthMsg == "Length of values list must match length of datetimes list"

NoValueMsg == "No value meets the conditional statement."

\* _check_values: the assertion that fails, if any
\* _check_values without the comparison of the lengths
_check_values_NoLength(datetimes, values) ==
  IF ~IsSequence(values)
  THEN Raise("AssertionError", << "values should be a list or tuple" >>)
  ELSE IF ~(Len(values.items) > 0)
  THEN Raise("AssertionError", << EmptyMsg >>)
  ELSE Ok

_check_values(datetimes, values) ==
  IF ~IsSequence(values)
  THEN Raise("AssertionError", << "values should be a list or tuple" >>)
  ELSE IF Len(values.items) # Len(datetimes)
  THEN Raise("AssertionError", << LengthMsg >>)
  ELSE IF ~(Len(values.items) > 0)
  THEN Raise("AssertionError", << EmptyMsg >>)
  ELSE Ok

\* __init__ of class cls: [e, coll]; coll is the new object when e = Ok.
\* `isHeader` is isinstance(header, Header).
__init__(cls, isHeader, h, values, datetimes) ==
  IF ~isHeader
  THEN [e |-> Raise("AssertionError", << "header must be a Ladybug Header object" >>),
        coll |-> NoColl]
  ELSE IF ~IsSequence(datetimes)
  THEN [e |-> Raise("AssertionError", << "datetimes should be a list or tuple" >>),
        coll |-> NoColl]
  ELSE LET e == _check_values(datetimes.items, values)
       IN  IF e # Ok THEN [e |-> e, coll |-> NoColl]
           ELSE [e |-> Ok,
                 coll |-> [ctype |-> cls.ctype, mutable |-> cls.mutable,
                           header |-> h, values |-> values.items,
                           datetimes |-> datetimes.items,
                           validated_a_period |-> FALSE]]

\* self.__class__
ClassOf(c) == [ctype |-> c.ctype, mutable |-> c.mutable]

\* self._enumeration['mutable' | 'immutable'][self._collection_type]
Registry(mutable, ctype) == [ctype |-> ctype, mutable |-> mutable]

\* header instances some variable or some returned collection refers to
Live(cs, out) == { cs[n].header : n \in { m \in Names : cs[m] # NoColl } }
                   \cup { out[i].header : i \in DOMAIN out }

\* a header instance that does not exist yet
FreshHdr(used) ==
  CHOOSE h \in HdrIds : h \notin used /\ \A g \in HdrIds : g < h => g \in used

\* the state after a call: unreferenced headers are collected
Commit(cs, hs, r) ==
  /\ colls' = cs
  /\ ret' = r
  /\ hdrs' = [h \in HdrIds |-> IF h \in Live(cs, r.out) THEN hs[h] ELSE NoHdr]

\* dst = <the returned collection>; dst = "_" drops it
Bind(dst, coll) == IF dst \in Names THEN [colls EXCEPT ![dst] = coll] ELSE colls

Init ==
  /\ colls = [n \in Names |-> NoColl]
  /\ hdrs = [h \in HdrIds |-> NoHdr]
  /\ ret = [op |-> "none", e |-> Ok, out |-> << >>]

\* ------------------------------------------------- container operations

\* n = cls(Header(Illuminance(), unit), values, datetimes)
Construct(n, cls, unit, values, datetimes) ==
  LET h == FreshHdr(Live(colls, << >>))
      r == __init__(cls, TRUE, h, values, datetimes)
  IN  Commit(IF r.e = Ok THEN [colls EXCEPT ![n] = r.coll] ELSE colls,
             [hdrs EXCEPT ![h] = [data_type |-> "Illuminance", unit |-> unit]],
             [op |-> "__init__", e |-> r.e, out |-> << >>, dst |-> n, isheader |-> TRUE,
              vkind |-> values.kind, dkind |-> datetimes.kind,
              nvalues |-> Len(values.items), ndatetimes |-> Len(datetimes.items)])

\* n = cls(header, values, datetimes) with a header that is not a Header
ConstructNonHeader(n, cls, values, datetimes) ==
  LET r == __init__(cls, FALSE, 0, values, datetimes)
  IN  Commit(IF r.e = Ok THEN [colls EXCEPT ![n] = r.coll] ELSE colls, hdrs,
             [op |-> "__init__", e |-> r.e, out |-> << >>, dst |-> n, isheader |-> FALSE,
              vkind |-> values.kind, dkind |-> datetimes.kind,
              nvalues |-> Len(values.items), ndatetimes |-> Len(datetimes.items)])

\* n.values = values
SetValues(n, values) ==
  /\ Exists(n)
  /\ LET e == _check_values(colls[n].datetimes, values)
     IN  Commit(IF e = Ok THEN [colls EXCEPT ![n].values = values.items] ELSE colls,
                hdrs,
                [op |-> "values.setter", e |-> e, out |-> << >>, src |-> n,
                 values |-> values])

\* a Python index into a list of length n, as a position 1..n; 0 when out of range
Index(i, n) == IF 0 <= i /\ i < n THEN i + 1
               ELSE IF i < 0 /\ -n <= i THEN n + i + 1 ELSE 0

\* list[lo:hi] = items, for 0 <= lo <= hi <= len(list)
SliceAssign(old, lo, hi, items) ==
  SubSeq(old, 1, lo) \o items \o SubSeq(old, hi + 1, Len(old))

\* n[key] = value: key an index (value a number) or a slice lo:hi (value a list)
__setitem__(n, key, value) ==
  /\ Exists(n)
  /\ IF key.kind = "index"
     THEN LET k == Index(key.i, Len(colls[n].values))
          IN  Commit(IF k # 0 THEN [colls EXCEPT ![n].values[k] = value.items[1]]
                     ELSE colls,
                     hdrs,
                     [op |-> "__setitem__", out |-> << >>, src |-> n, key |-> "index",
                      e |-> IF k # 0 THEN Ok
                            ELSE Raise("IndexError",
                                       << "list assignment index out of range" >>)])
     ELSE /\ key.lo <= key.hi /\ key.hi <= Len(colls[n].values)
          /\ LET new == SliceAssign(colls[n].values, key.lo, key.hi, value.items)
             IN  /\ Len(new) <= MaxLen
                 /\ Commit([colls EXCEPT ![n].values = new], hdrs,
                           [op |-> "__setitem__", out |-> << >>, src |-> n,
                            key |-> "slice", e |-> Ok])

\* ------------------------------------------------------------ Illuminance
\* Values are integers: a converted value is rounded to the nearest integer.

LuxPerFcNum == 107639

LuxPerFcDen == 10000

RoundDiv(a, b) == (2 * a + b) \div (2 * b)

_lux_to_fc(value) == RoundDiv(value * LuxPerFcDen, LuxPerFcNum)

_fc_to_lux(value) == RoundDiv(value * LuxPerFcNum, LuxPerFcDen)

\* DataTypeBase._to_unit_base(base_unit, values, unit, from_unit), base_unit 'lux':
\* to the base unit unless already there, then to `unit` unless it is the base
_to_unit_base(values, unit, from_unit) ==
  LET base == IF from_unit # "lux" THEN [i \in DOMAIN values |-> _fc_to_lux(values[i])]
              ELSE values
  IN  IF unit # "lux" THEN [i \in DOMAIN base |-> _lux_to_fc(base[i])] ELSE base

to_unit(values, unit, from_unit) == _to_unit_base(values, unit, from_unit)

to_ip(values, from_unit) ==
  IF from_unit = "fc" THEN << values, from_unit >>
  ELSE << to_unit(values, "fc", from_unit), "fc" >>

to_si(values, from_unit) ==
  IF from_unit = "lux" THEN << values, from_unit >>
  ELSE << to_unit(values, "lux", from_unit), "lux" >>

\* convert_to_unit / convert_to_ip / convert_to_si on collection c with headers hs:
\* << the collection after, the headers after >>
Converted(c, hs, how, unit) ==
  LET from == hs[c.header].unit
      vu == CASE how = "unit" -> << to_unit(c.values, unit, from), unit >>
              [] how = "ip" -> to_ip(c.values, from)
              [] how = "si" -> to_si(c.values, from)
  IN  << [c EXCEPT !.values = vu[1]], [hs EXCEPT ![c.header].unit = vu[2]] >>

\* n.convert_to_unit(unit)
convert_to_unit(n, unit) ==
  /\ Exists(n)
  /\ LET r == Converted(colls[n], hdrs, "unit", unit)
     IN  Commit([colls EXCEPT ![n] = r[1]], r[2],
                [op |-> "convert_to_unit", e |-> Ok, out |-> << >>, src |-> n,
                 unit |-> unit])

\* a convert_to_ip that replaces the values and leaves header.unit
convert_to_ip_KeepUnit(n) ==
  /\ Exists(n)
  /\ LET r == Converted(colls[n], hdrs, "ip", "")
     IN  Commit([colls EXCEPT ![n] = r[1]], hdrs,
                [op |-> "convert_to_ip", e |-> Ok, out |-> << >>, src |-> n])

\* n.convert_to_ip()
convert_to_ip(n) ==
  /\ Exists(n)
  /\ LET r == Converted(colls[n], hdrs, "ip", "")
     IN  Commit([colls EXCEPT ![n] = r[1]], r[2],
                [op |-> "convert_to_ip", e |-> Ok, out |-> << >>, src |-> n])

\* n.convert_to_si()
convert_to_si(n) ==
  /\ Exists(n)
  /\ LET r == Converted(colls[n], hdrs, "si", "")
     IN  Commit([colls EXCEPT ![n] = r[1]], r[2],
                [op |-> "convert_to_si", e |-> Ok, out |-> << >>, src |-> n])

\* ------------------------------------------------------------ derivation

\* the outcome of a call that returns a new collection built by __init__ r with
\* header fields hf for the new header instance h
Derive(opname, dst, src, args, h, hf, r, vap) ==
  LET c == [r.coll EXCEPT !.validated_a_period = vap]
  IN  IF r.e = Ok
      THEN Commit(Bind(dst, c), [hdrs EXCEPT ![h] = hf],
                  [op |-> opname, e |-> Ok, out |-> << c >>, src |-> src, dst |-> dst,
                   pre |-> colls[src], prehdr |-> hdrs[colls[src].header],
                   args |-> args])
      ELSE Commit(colls, hdrs,
                  [op |-> opname, e |-> r.e, out |-> << >>, src |-> src, dst |-> dst,
                   pre |-> colls[src], prehdr |-> hdrs[colls[src].header],
                   args |-> args])

\* a duplicate that keeps the source's header instance
duplicate_SharedHeader(dst, src) ==
  /\ Exists(src)
  /\ LET c == colls[src]
         r == __init__(ClassOf(c), TRUE, c.header,
                       [kind |-> "tuple", items |-> c.values],
                       [kind |-> "tuple", items |-> c.datetimes])
     IN  Derive("duplicate", dst, src, << >>, c.header, hdrs[c.header], r,
                c.validated_a_period)

\* dst = src.duplicate()
duplicate(dst, src) ==
  /\ Exists(src)
  /\ LET c == colls[src]
         h == FreshHdr(Live(colls, << >>))
         r == __init__(ClassOf(c), TRUE, h, [kind |-> "tuple", items |-> c.values],
                       [kind |-> "tuple", items |-> c.datetimes])
     IN  Derive("duplicate", dst, src, << >>, h, hdrs[c.header], r, c.validated_a_period)

\* new_data_c = src.duplicate(); new_data_c.convert_to_...(); return new_data_c
\* `how` is "unit", "ip" or "si"
ConvertedDuplicate(opname, dst, src, how, unit) ==
  LET c == colls[src]
      h == FreshHdr(Live(colls, << >>))
      r == __init__(ClassOf(c), TRUE, h, [kind |-> "tuple", items |-> c.values],
                    [kind |-> "tuple", items |-> c.datetimes])
      v == Converted([r.coll EXCEPT !.validated_a_period = c.validated_a_period],
                     [hdrs EXCEPT ![h] = hdrs[c.header]], how, unit)
  IN  IF r.e # Ok
      THEN Derive(opname, dst, src, [unit |-> unit], h, NoHdr, r, FALSE)
      ELSE Derive(opname, dst, src, [unit |-> unit], h, v[2][h],
                  [e |-> Ok, coll |-> v[1]], c.validated_a_period)

\* dst = src.to_unit(unit)
ToUnit(dst, src, unit) ==
  Exists(src) /\ ConvertedDuplicate("to_unit", dst, src, "unit", unit)

\* dst = src.to_ip()
ToIp(dst, src) == Exists(src) /\ ConvertedDuplicate("to_ip", dst, src, "ip", "")

\* dst = src.to_si()
ToSi(dst, src) == Exists(src) /\ ConvertedDuplicate("to_si", dst, src, "si", "")

\* dst = src.to_mutable(): return self.duplicate()
to_mutable(dst, src) ==
  /\ Exists(src)
  /\ LET c == colls[src]
         h == FreshHdr(Live(colls, << >>))
         r == __init__(ClassOf(c), TRUE, h, [kind |-> "tuple", items |-> c.values],
                       [kind |-> "tuple", items |-> c.datetimes])
     IN  Derive("to_mutable", dst, src, << >>, h, hdrs[c.header], r, c.validated_a_period)

\* dst = src.to_immutable(): col_obj(self.header, self.values, self.datetimes);
\* the header is the source's own instance and _validated_a_period is the
\* constructor's False
to_immutable(dst, src) ==
  /\ Exists(src)
  /\ LET c == colls[src]
         r == __init__(Registry(FALSE, c.ctype), TRUE, c.header,
                       [kind |-> "tuple", items |-> c.values],
                       [kind |-> "tuple", items |-> c.datetimes])
     IN  Derive("to_immutable", dst, src, << >>, c.header, hdrs[c.header], r, FALSE)

\* ----------------------------------------------------------- dictionaries

\* a dict with the given keys; the entries of absent keys are never read
DictOf(keys, hf, values, datetimes, vap) ==
  [keys |-> keys, header |-> hf, values |-> values, datetimes |-> datetimes,
   validated_a_period |-> vap]

DictKeys == { "header", "values", "datetimes", "validated_a_period", "type" }

MissingMsg(key) == << "Required keyword", key, "is missing!" >>

\* Header.from_dict(data['header']): a new Header with the serialized fields
Header_from_dict(hf) == hf

\* Header.to_dict(): the fields of the header
Header_to_dict(hf) == hf

\* cls.from_dict(data), h the instance of the new header: [e, coll, hf]
from_dict(cls, data, h) ==
  LET missing(key) == [e |-> Raise("AssertionError", MissingMsg(key)),
                       coll |-> NoColl, hf |-> NoHdr]
      r == __init__(cls, TRUE, h, data.values, data.datetimes)
  IN  IF "header" \notin data.keys THEN missing("header")
      ELSE IF "values" \notin data.keys THEN missing("values")
      ELSE IF "datetimes" \notin data.keys THEN missing("datetimes")
      ELSE IF r.e # Ok THEN [e |-> r.e, coll |-> NoColl, hf |-> NoHdr]
      ELSE [e |-> Ok, hf |-> Header_from_dict(data.header),
            coll |-> IF "validated_a_period" \in data.keys
                     THEN [r.coll EXCEPT !.validated_a_period = data.validated_a_period]
                     ELSE r.coll]

\* dst = cls.from_dict(data); `of` names the collection whose to_dict() gave
\* data, "" when the caller made the dict
FromDict(dst, cls, data, of) ==
  LET h == FreshHdr(Live(colls, << >>))
      r == from_dict(cls, data, h)
  IN  Commit(IF r.e = Ok THEN Bind(dst, r.coll) ELSE colls,
             [hdrs EXCEPT ![h] = r.hf],
             [op |-> "from_dict", e |-> r.e,
              out |-> IF r.e = Ok THEN << r.coll >> ELSE << >>,
              dst |-> dst, keys |-> data.keys, of |-> of,
              pre |-> IF of \in Names THEN colls[of] ELSE NoColl])

\* self.to_dict(): 'values' is self._values, the stored list itself
to_dict(c, hs) ==
  DictOf(DictKeys, Header_to_dict(hs[c.header]), [kind |-> "list", items |-> c.values],
         [kind |-> "tuple", items |-> c.datetimes], c.validated_a_period)

\* d = src.to_dict(); the caller holds d['values'], which is src._values
ToDict(src) ==
  /\ Exists(src)
  /\ Commit(colls, hdrs,
            [op |-> "to_dict", e |-> Ok, out |-> << >>, src |-> src,
             d |-> to_dict(colls[src], hdrs), handed |-> to_dict(colls[src], hdrs).values,
             ref |-> "_values"])

\* the values property: tuple(self._values)
values_getter(c) == [kind |-> "tuple", items |-> c.values]

\* t = src.values; the caller holds a new tuple
ReadValues(src) ==
  /\ Exists(src)
  /\ Commit(colls, hdrs,
            [op |-> "values", e |-> Ok, out |-> << >>, src |-> src,
             handed |-> values_getter(colls[src]), ref |-> "copy"])

\* the caller modifies the object handed out by the last read, in place:
\* obj[0] = v (how = "setitem") or del obj[:] (how = "delslice"). A tuple
\* supports neither; a list that is the collection's own _values is the
\* collection's stored values afterwards.
MutateHanded(how, v) ==
  /\ ret.op \in { "values", "to_dict" }
  /\ LET obj == ret.handed
         e == IF obj.kind = "tuple"
              THEN Raise("TypeError", << "'tuple' object does not support item assignment" >>)
              ELSE IF how = "setitem" /\ obj.items = << >>
              THEN Raise("IndexError", << "list assignment index out of range" >>)
              ELSE Ok
         new == IF e # Ok THEN obj.items
                ELSE IF how = "setitem" THEN [obj.items EXCEPT ![1] = v]
                ELSE << >>
     IN  Commit(IF ret.ref = "_values" THEN [colls EXCEPT ![ret.src].values = new]
                ELSE colls,
                hdrs,
                [op |-> "handed.mutate", e |-> e, out |-> << >>, src |-> ret.src,
                 read |-> ret.op, how |-> how, before |-> colls[ret.src].values,
                 after |-> new])

\* ------------------------------------------------- statement filter engine

Chars_and == << "a", "n", "d" >>
Chars_or == << "o", "r" >>
Chars_not == << "n", "o", "t" >>
Chars_in == << "i", "n" >>
Chars_is == << "i", "s" >>

_remove_operators(statement) ==
  Replace(Replace(Replace(Replace(Replace(Lower(statement),
    Chars_and, << >>), Chars_or, << >>), Chars_not, << >>), Chars_in, << >>),
    Chars_is, << >>)

_replace_operators(statement) ==
  Replace(Replace(Replace(Replace(Replace(Lower(statement),
    Chars_and, << "&", "&" >>), Chars_or, << "|", "|" >>), Chars_not, << "~" >>),
    Chars_in, << "<", "<" >>), Chars_is, << "$" >>)

_restore_operators(statement) ==
  Replace(Replace(Replace(Replace(Replace(statement,
    << "&", "&" >>, Chars_and), << "|", "|" >>, Chars_or), << "~" >>, Chars_not),
    << "<", "<" >>, Chars_in), << "$" >>, Chars_is)

\* list(ascii_lowercase)[:num_collections]
CorrectVar(num_collections) == SubSeq(ascii_lowercase, 1, num_collections)

InvalidStatementMsg == "Invalid conditional statement"

\* _check_conditional_statement: the ValueError it raises, if any
_check_conditional_statement(statement, num_collections) ==
  LET correct_var == Range(CorrectVar(num_collections))
      st_statement == _remove_operators(statement)
      parsed_st == SelectSeq(st_statement, IsAlpha)
  IN  IF \E i \in DOMAIN parsed_st : parsed_st[i] \notin correct_var
      THEN Raise("ValueError", << InvalidStatementMsg >>)
      ELSE Ok

\* the loop of _filter_by_statement from sample i on: [e, vals, dts, evals],
\* evals the number of eval calls made
RECURSIVE FilterLoop(_, _, _, _)
FilterLoop(values, datetimes, statement, i) ==
  IF i > Len(values) THEN [e |-> Ok, vals |-> << >>, dts |-> << >>, evals |-> 0]
  ELSE LET r == Eval(statement, "a" :> values[i])
           rest == FilterLoop(values, datetimes, statement, i + 1)
       IN  IF r.k # "ok"
           THEN [e |-> Raise(r.k, << >>), vals |-> << >>, dts |-> << >>, evals |-> 1]
           ELSE IF r.v = 0 THEN [rest EXCEPT !.evals = @ + 1]
           ELSE IF i > Len(datetimes)
           THEN [e |-> Raise("IndexError", << "tuple index out of range" >>),
                 vals |-> << >>, dts |-> << >>, evals |-> 1]
           ELSE IF rest.e # Ok THEN [rest EXCEPT !.evals = @ + 1]
           ELSE [e |-> Ok, vals |-> << values[i] >> \o rest.vals,
                 dts |-> << datetimes[i] >> \o rest.dts, evals |-> rest.evals + 1]

_filter_by_statement(c, statement) ==
  LET e == _check_conditional_statement(statement, 1)
  IN  IF e # Ok THEN [e |-> e, vals |-> << >>, dts |-> << >>, evals |-> 0]
      ELSE FilterLoop(c.values, c.datetimes, statement, 1)

\* the except clause re-raising the error it caught as it is
NoValueMeets_Reraised(e) == e

\* raise AssertionError('No value meets the conditional statement.\n{}'.format(e))
NoValueMeets(e) == Raise("AssertionError", << NoValueMsg >> \o e.msg)

\* dst = src.filter_by_conditional_statement(statement)
filter_by_conditional_statement(dst, src, statement) ==
  /\ Exists(src)
  /\ LET c == colls[src]
         f == _filter_by_statement(c, statement)
         h == FreshHdr(Live(colls, << >>))
         r == __init__(Registry(TRUE, c.ctype), TRUE, h, List(f.vals), List(f.dts))
         args == [statement |-> statement, evals |-> f.evals]
     IN  IF f.e # Ok
         THEN Derive("filter_by_conditional_statement", dst, src, args, h, NoHdr,
                     [e |-> f.e, coll |-> NoColl], FALSE)
         ELSE Derive("filter_by_conditional_statement", dst, src, args, h,
                     hdrs[c.header],
                     IF r.e.err = "AssertionError"
                     THEN [e |-> NoValueMeets(r.e), coll |-> NoColl] ELSE r,
                     c.validated_a_period)

\* [d for i, d in enumerate(items) if pattern[i % _len]], from position i on
RECURSIVE Keep(_, _, _)
Keep(items, pattern, i) ==
  IF i > Len(items) THEN << >>
  ELSE (IF pattern[((i - 1) % Len(pattern)) + 1] THEN << items[i] >> ELSE << >>)
       \o Keep(items, pattern, i + 1)

\* _filter_by_pattern: [e, vals, dts]. The items of a pattern are the truth
\* values of its elements; a str has a length and its characters are all
\* true, a dict has a length and no key 0.
_filter_by_pattern(c, pattern) ==
  IF pattern.kind = "int"
  THEN [e |-> Raise("TypeError", << "pattern is not a list of Booleans" >>),
        vals |-> << >>, dts |-> << >>]
  ELSE IF Len(pattern.items) = 0 /\ (Len(c.values) > 0 \/ Len(c.datetimes) > 0)
  THEN [e |-> Raise("ZeroDivisionError", << "integer division or modulo by zero" >>),
        vals |-> << >>, dts |-> << >>]
  ELSE IF pattern.kind = "dict" /\ (Len(c.values) > 0 \/ Len(c.datetimes) > 0)
  THEN [e |-> Raise("KeyError", << "0" >>), vals |-> << >>, dts |-> << >>]
  ELSE [e |-> Ok, vals |-> Keep(c.values, pattern.items, 1),
        dts |-> Keep(c.datetimes, pattern.items, 1)]

\* c.filter_by_pattern(pattern) with h the duplicated header's instance: [e, coll]
FilterByPattern(c, pattern, h) ==
  LET f == _filter_by_pattern(c, pattern)
      r == __init__(Registry(TRUE, c.ctype), TRUE, h, List(f.vals), List(f.dts))
  IN  IF f.e # Ok THEN [e |-> f.e, coll |-> NoColl]
      ELSE IF r.e # Ok THEN r
      ELSE [r EXCEPT !.coll.validated_a_period = c.validated_a_period]

\* dst = src.filter_by_pattern(pattern)
filter_by_pattern(dst, src, pattern) ==
  /\ Exists(src)
  /\ LET c == colls[src]
         h == FreshHdr(Live(colls, << >>))
     IN  Derive("filter_by_pattern", dst, src, [pattern |-> pattern], h,
                hdrs[c.header], FilterByPattern(c, pattern, h), c.validated_a_period)

\* ------------------------------------------------------------- alignment

\* is_collection_aligned without its comparison of the datetimes
is_collection_aligned_NoDatetimes(self, data_collection) ==
  IF self.ctype # data_collection.ctype THEN FALSE
  ELSE IF Len(self.values) # Len(data_collection.values) THEN FALSE
  ELSE TRUE

is_collection_aligned(self, data_collection) ==
  IF self.ctype # data_collection.ctype THEN FALSE
  ELSE IF Len(self.values) # Len(data_collection.values) THEN FALSE
  ELSE IF self.datetimes # data_collection.datetimes THEN FALSE
  ELSE TRUE

\* the loop returning True right after its first comparison
AlignedLoop_FirstOnly(cs, hs, raise_exception, j) ==
  IF j > Len(cs) THEN [e |-> Ok, val |-> TRUE]
  ELSE IF ~is_collection_aligned(cs[1], cs[j])
  THEN IF raise_exception
       THEN [e |-> Raise("ValueError",
                         << hs[cs[1].header].data_type, "is not aligned with",
                            hs[cs[j].header].data_type >>),
             val |-> FALSE]
       ELSE [e |-> Ok, val |-> FALSE]
  ELSE [e |-> Ok, val |-> TRUE]

\* the loop of are_collections_aligned over data_collections[1:], from position j
RECURSIVE AlignedLoop(_, _, _, _)
AlignedLoop(cs, hs, raise_exception, j) ==
  IF j > Len(cs) THEN [e |-> Ok, val |-> TRUE]
  ELSE IF ~is_collection_aligned(cs[1], cs[j])
  THEN IF raise_exception
       THEN [e |-> Raise("ValueError",
                         << hs[cs[1].header].data_type, "is not aligned with",
                            hs[cs[j].header].data_type >>),
             val |-> FALSE]
       ELSE [e |-> Ok, val |-> FALSE]
  ELSE AlignedLoop(cs, hs, raise_exception, j + 1)

\* are_collections_aligned(data_collections, raise_exception): [e, val]
are_collections_aligned(cs, hs, raise_exception) ==
  IF Len(cs) > 1 THEN AlignedLoop(cs, hs, raise_exception, 2)
  ELSE [e |-> Ok, val |-> TRUE]

\* the collections the variables of a list hold
Held(ns) == [j \in DOMAIN ns |-> colls[ns[j]]]

AllExist(ns) == \A j \in DOMAIN ns : Exists(ns[j])

\* a.is_collection_aligned(b)
IsCollectionAligned(a, b) ==
  /\ Exists(a) /\ Exists(b)
  /\ Commit(colls, hdrs,
            [op |-> "is_collection_aligned", e |-> Ok, out |-> << >>,
             srcs |-> << a, b >>, val |-> is_collection_aligned(colls[a], colls[b])])

\* BaseCollection.are_collections_aligned([ns...], raise_exception)
AreCollectionsAligned(ns, raise_exception) ==
  /\ AllExist(ns)
  /\ LET r == are_collections_aligned(Held(ns), hdrs, raise_exception)
     IN  Commit(colls, hdrs,
                [op |-> "are_collections_aligned", e |-> r.e, out |-> << >>,
                 srcs |-> ns, val |-> r.val, raise_exception |-> raise_exception])

\* the names of the DataTypeBase instances callers pass
DataTypes == { "Illuminance" }

\* _check_aligned_header: [e, hf], hf the fields of the new Header
_check_aligned_header(c, hs, data_type, unit) ==
  IF data_type # "None"
  THEN IF data_type # "Illuminance"
       THEN [e |-> Raise("AssertionError", << "data_type must be a Ladybug DataType" >>),
             hf |-> NoHdr]
       ELSE [e |-> Ok,
             hf |-> [data_type |-> data_type,
                     unit |-> IF unit = "None" THEN "lux" ELSE unit]]
  ELSE [e |-> Ok,
        hf |-> [data_type |-> hs[c.header].data_type,
                unit |-> IF unit = "None" THEN hs[c.header].unit ELSE unit]]

AlignedLengthMsg == "Length of value must match the length of this collection's values"

\* _check_aligned_value: [e, values]
_check_aligned_value(c, value) ==
  IF IsSequence(value)
  THEN IF Len(value.items) # Len(c.values)
       THEN [e |-> Raise("AssertionError", << AlignedLengthMsg >>), values |-> << >>]
       ELSE [e |-> Ok, values |-> value.items]
  ELSE [e |-> Ok, values |-> [i \in 1..Len(c.values) |-> value.items[1]]]

\* c.get_aligned_collection(value, data_type, unit, mutable) with h the new
\* header's instance: [e, coll, hf]
GetAligned(c, hs, value, data_type, unit, mutable, h) ==
  LET hd == _check_aligned_header(c, hs, data_type, unit)
      vs == _check_aligned_value(c, value)
      cls == IF mutable = "None" THEN ClassOf(c)
             ELSE IF mutable = "False" THEN Registry(FALSE, c.ctype)
             ELSE Registry(TRUE, c.ctype)
      r == __init__(cls, TRUE, h, List(vs.values), List(c.datetimes))
  IN  IF hd.e # Ok THEN [e |-> hd.e, coll |-> NoColl, hf |-> NoHdr]
      ELSE IF vs.e # Ok THEN [e |-> vs.e, coll |-> NoColl, hf |-> NoHdr]
      ELSE IF r.e # Ok THEN [e |-> r.e, coll |-> NoColl, hf |-> NoHdr]
      ELSE [e |-> Ok, hf |-> hd.hf,
            coll |-> [r.coll EXCEPT !.validated_a_period = c.validated_a_period]]

\* dst = src.get_aligned_collection(value, data_type, unit, mutable)
get_aligned_collection(dst, src, value, data_type, unit, mutable) ==
  /\ Exists(src)
  /\ LET c == colls[src]
         h == FreshHdr(Live(colls, << >>))
         r == GetAligned(c, hdrs, value, data_type, unit, mutable, h)
     IN  Derive("get_aligned_collection", dst, src,
                [value |-> value, data_type |-> data_type, unit |-> unit,
                 mutable |-> mutable],
                h, r.hf, [e |-> r.e, coll |-> r.coll], c.validated_a_period)

\* ------------------------------------------- multi-collection statements

\* the inner loop: num_statement.replace(correct_var[j], str(coll[i])) for j..
RECURSIVE Substitute(_, _, _, _)
Substitute(num_statement, cs, i, j) ==
  IF j > Len(cs) THEN num_statement
  ELSE Substitute(Replace(num_statement, << ascii_lowercase[j] >>, Str(cs[j].values[i])),
                  cs, i, j + 1)

\* the text eval receives for sample i
NumStatement(cs, statement, i) ==
  _restore_operators(Substitute(_replace_operators(statement), cs, i, 1))

\* the outer loop from sample i on: [e, pattern, bools, evals]; pattern holds the
\* truth of each eval result and bools says every result was a bool
RECURSIVE PatternLoop(_, _, _)
PatternLoop(cs, statement, i) ==
  IF i > Len(cs[1].values)
  THEN [e |-> Ok, pattern |-> << >>, bools |-> TRUE, evals |-> 0]
  ELSE LET r == Eval(NumStatement(cs, statement, i), NoEnv)
           rest == PatternLoop(cs, statement, i + 1)
       IN  IF r.k # "ok"
           THEN [e |-> Raise(r.k, << >>), pattern |-> << >>, bools |-> TRUE, evals |-> 1]
           ELSE IF rest.e # Ok THEN [rest EXCEPT !.evals = @ + 1]
           ELSE [e |-> Ok, pattern |-> << r.v # 0 >> \o rest.pattern,
                 bools |-> r.b /\ rest.bools, evals |-> rest.evals + 1]

\* pattern_from_collections_and_statement: [e, pattern, bools, evals]
pattern_from_collections_and_statement(cs, hs, statement) ==
  LET al == are_collections_aligned(cs, hs, TRUE)
      ck == _check_conditional_statement(statement, Len(cs))
      fail(e) == [e |-> e, pattern |-> << >>, bools |-> TRUE, evals |-> 0]
  IN  IF al.e # Ok THEN fail(al.e)
      ELSE IF ck # Ok THEN fail(ck)
      ELSE PatternLoop(cs, statement, 1)

\* BaseCollection.pattern_from_collections_and_statement([ns...], statement)
PatternFromCollectionsAndStatement(ns, statement) ==
  /\ AllExist(ns)
  /\ LET r == pattern_from_collections_and_statement(Held(ns), hdrs, statement)
     IN  Commit(colls, hdrs,
                [op |-> "pattern_from_collections_and_statement", e |-> r.e,
                 out |-> << >>, srcs |-> ns, statement |-> statement,
                 val |-> r.pattern, bools |-> r.bools, evals |-> r.evals])

\* [coll.filter_by_pattern(pattern) for coll in data_collections] from position
\* j on, `used` the header instances in use: [e, out, hfs]
RECURSIVE FilterAll(_, _, _, _, _)
FilterAll(cs, hs, pattern, j, used) ==
  IF j > Len(cs) THEN [e |-> Ok, out |-> << >>, hfs |-> << >>]
  ELSE LET h == FreshHdr(used)
           r == FilterByPattern(cs[j], pattern, h)
           rest == FilterAll(cs, hs, pattern, j + 1, used \cup { h })
       IN  IF r.e # Ok THEN [e |-> r.e, out |-> << >>, hfs |-> << >>]
           ELSE IF rest.e # Ok THEN rest
           ELSE [e |-> Ok, out |-> << r.coll >> \o rest.out,
                 hfs |-> << hs[cs[j].header] >> \o rest.hfs]

\* filter_collections_by_statement returning the collections last to first
filter_collections_by_statement_Reversed(cs, hs, p, used) ==
  IF p.e # Ok THEN [e |-> p.e, out |-> << >>, hfs |-> << >>]
  ELSE LET f == FilterAll(cs, hs, List(p.pattern), 1, used)
           n == Len(f.out)
       IN  IF f.e.err = "AssertionError"
           THEN [e |-> NoValueMeets(f.e), out |-> << >>, hfs |-> << >>]
           ELSE [e |-> f.e, out |-> [j \in 1..n |-> f.out[n + 1 - j]],
                 hfs |-> [j \in 1..n |-> f.hfs[n + 1 - j]]]

\* filter_collections_by_statement with pattern result p: [e, out, hfs]
filter_collections_by_statement(cs, hs, p, used) ==
  IF p.e # Ok THEN [e |-> p.e, out |-> << >>, hfs |-> << >>]
  ELSE LET f == FilterAll(cs, hs, List(p.pattern), 1, used)
       IN  IF f.e.err = "AssertionError"
           THEN [e |-> NoValueMeets(f.e), out |-> << >>, hfs |-> << >>]
           ELSE f

\* the headers after a call that returned the collections out with header
\* fields hfs
WithHeaders(hs, out, hfs) ==
  [h \in HdrIds |->
     IF \E j \in DOMAIN out : out[j].header = h
     THEN hfs[CHOOSE j \in DOMAIN out : out[j].header = h]
     ELSE hs[h]]

\* BaseCollection.filter_collections_by_statement([ns...], statement)
FilterCollectionsByStatement(ns, statement) ==
  /\ AllExist(ns)
  /\ LET p == pattern_from_collections_and_statement(Held(ns), hdrs, statement)
         r == filter_collections_by_statement(Held(ns), hdrs, p, Live(colls, << >>))
     IN  Commit(colls, WithHeaders(hdrs, r.out, r.hfs),
                [op |-> "filter_collections_by_statement", e |-> r.e, out |-> r.out,
                 srcs |-> ns, pres |-> Held(ns), statement |-> statement,
                 pattern |-> p.pattern, evals |-> p.evals, pe |-> p.e])

\* ------------------------------------------------ aligned function

\* an input of compute_function_aligned: the collection a variable holds
CollArg(n) == [kind |-> "coll", items |-> << >>, name |-> n]

NumArg(v) == [kind |-> "int", items |-> << v >>, name |-> ""]

StrArg == [kind |-> "str", items |-> << >>, name |-> ""]

\* the functions callers pass
Functs == { "sum", "max" }

RECURSIVE SumOf(_)
SumOf(args) == IF args = << >> THEN 0 ELSE args[1] + SumOf(Tail(args))

MaxOf(args) == CHOOSE m \in Range(args) : \A a \in Range(args) : a <= m

\* funct(*args)
Apply(funct, args) == IF funct = "sum" THEN SumOf(args) ELSE MaxOf(args)

\* compute_function_aligned(funct, inputs, data_type, unit), h the instance of
\* the result's header: [e, scalar, val, coll, hf]
compute_function_aligned(funct, inputs, cs, hs, data_type, unit, h) ==
  LET isColl(j) == inputs[j].kind = "coll"
      collIdx == SelectSeq([j \in DOMAIN inputs |-> j], isColl)
      data_colls == [k \in DOMAIN collIdx |-> cs[inputs[collIdx[k]].name]]
      none == [e |-> Ok, scalar |-> FALSE, val |-> 0, coll |-> NoColl, hf |-> NoHdr]
  IN  IF \E j \in DOMAIN inputs : inputs[j].kind = "str"
      THEN [none EXCEPT !.e = Raise("TypeError",
                                    << "Expected a number or a Data Colleciton" >>)]
      ELSE IF Len(data_colls) = 0
      THEN [none EXCEPT !.scalar = TRUE,
                        !.val = Apply(funct, [j \in DOMAIN inputs |-> inputs[j].items[1]])]
      ELSE LET al == are_collections_aligned(data_colls, hs, TRUE)
               val_len == Len(data_colls[1].values)
               col(j, i) == IF isColl(j) THEN cs[inputs[j].name].values[i]
                            ELSE inputs[j].items[1]
               result == GetAligned(data_colls[1], hs, NumArg(0), data_type, unit,
                                    "None", h)
           IN  IF al.e # Ok THEN [none EXCEPT !.e = al.e]
               ELSE IF result.e # Ok THEN [none EXCEPT !.e = result.e]
               ELSE [none EXCEPT
                       !.hf = result.hf,
                       !.coll = [result.coll EXCEPT !.values =
                                   [i \in 1..val_len |->
                                      Apply(funct, [j \in DOMAIN inputs |-> col(j, i)])]]]

\* BaseCollection.compute_function_aligned(funct, inputs, Illuminance(), unit)
ComputeFunctionAligned(funct, inputs, unit) ==
  /\ \A j \in DOMAIN inputs : inputs[j].kind = "coll" => Exists(inputs[j].name)
  /\ LET h == FreshHdr(Live(colls, << >>))
         r == compute_function_aligned(funct, inputs, colls, hdrs, "Illuminance", unit, h)
     IN  Commit(colls, [hdrs EXCEPT ![h] = r.hf],
                [op |-> "compute_function_aligned", e |-> r.e,
                 out |-> IF r.coll = NoColl THEN << >> ELSE << r.coll >>,
                 funct |-> funct, inputs |-> inputs, scalar |-> r.scalar,
                 val |-> r.val, pre |-> colls])

\* ------------------------------------------------------------- the inputs

\* the statements callers pass
St_gt == << "a", " ", ">", " ", "2" >>

St_pow == << "a", " ", "*", "*", " ", "2", " ", ">", " ", "3" >>

St_and == << "a", " ", ">", " ", "0", " ", "a", "n", "d", " ", "a", " ", "<", " ", "3" >>

St_b == << "b", " ", ">", " ", "2" >>

St_aa == << "a", "a", " ", ">", " ", "2" >>

St_A == << "A", " ", ">", " ", "2" >>

St_ab == << "a", " ", ">", " ", "b" >>

Statements == { St_gt, St_pow, St_and, St_b, St_aa, St_A }

\* the lists of at most MaxLen numbers from S, and a str
ValueArgs(S) == { List(s) : s \in SeqsUpTo(S, MaxLen) } \cup { AStr }

\* the datetimes callers pass: a timeline 1..k, or the whole timeline reversed
DateTimeLists == { List([i \in 1..k |-> i]) : k \in 0..MaxLen }
                   \cup { List([i \in 1..MaxLen |-> MaxLen + 1 - i]) }

DateTimeArgs == DateTimeLists \cup { AStr }

PatternArgs == { List(s) : s \in SeqsUpTo(BOOLEAN, MaxLen) } \cup { AnInt }

IndexKeys == { [kind |-> "index", i |-> i, lo |-> 0, hi |-> 0] : i \in -MaxLen..MaxLen }

SliceKeys == { [kind |-> "slice", i |-> 0, lo |-> lo, hi |-> hi] :
               lo \in 0..MaxLen, hi \in 0..MaxLen }

\* x[0:1] = ...
FirstSlice == [kind |-> "slice", i |-> 0, lo |-> 0, hi |-> 1]

ItemArgs(key, S) == IF key.kind = "index" THEN { Scalar(v) : v \in S }
                    ELSE { List(s) : s \in SeqsUpTo(S, MaxLen) }

AlignedValueArgs == { Scalar(3) } \cup { List(s) : s \in SeqsUpTo({ 3 }, MaxLen) }

HourlyMutable == [ctype |-> "Hourly", mutable |-> TRUE]

DailyMutable == [ctype |-> "Daily", mutable |-> TRUE]

\* ------------------------------------------------------ specifications

\* Spec: one variable x; construction, the setters, unit conversion, duplication
\* and aligned-collection synthesis.
Solo == { "x" }

Next ==
  \/ \E u \in Units, v \in ValueArgs({ 3 }), d \in DateTimeArgs :
       Construct("x", HourlyMutable, u, v, d)
  \/ \E v \in ValueArgs({ 3 }) : SetValues("x", v)
  \/ \E key \in IndexKeys \cup SliceKeys : \E v \in ItemArgs(key, { 3 }) :
       __setitem__("x", key, v)
  \/ \E u \in Units : convert_to_unit("x", u)
  \/ convert_to_ip("x")
  \/ convert_to_si("x")
  \/ \E dst \in { "x", "_" } : duplicate(dst, "x")
  \/ \E dst \in { "x", "_" }, v \in AlignedValueArgs, m \in { "None", "True", "False" } :
       get_aligned_collection(dst, "x", v, "None", "None", m)
  \/ \E dt \in { "Illuminance", "Temperature" }, u \in { "None", "fc" } :
       get_aligned_collection("_", "x", Scalar(3), dt, u, "None")

Spec == Init /\ [][Next]_vars

\* SpecFilter: one variable x; construction on a timeline 1..k, item assignment
\* (an index, or the slice x[0:1]), the two filters and the statement filter
\* over lists of collections.
FilterLists == { << "x" >>, << "x", "x" >> }

NextFilter ==
  \/ \E v \in ValueArgs(Vals), k \in 0..MaxLen :
       Construct("x", HourlyMutable, "lux", v, List([i \in 1..k |-> i]))
  \/ \E key \in IndexKeys \cup { FirstSlice } : \E v \in ItemArgs(key, Vals) :
       __setitem__("x", key, v)
  \/ \E st \in Statements : filter_by_conditional_statement("_", "x", st)
  \/ \E p \in PatternArgs : filter_by_pattern("_", "x", p)
  \/ \E ns \in FilterLists, st \in Statements : FilterCollectionsByStatement(ns, st)

SpecFilter == Init /\ [][NextFilter]_vars

\* SpecEmpty: one variable x; construction on a timeline 1..k, assignment to the
\* slice x[0:1] and the three filters, with a statement that some values meet
\* and one that no value meets.
EmptyStatements == { St_gt, St_and }

NextEmpty ==
  \/ \E v \in ValueArgs(Vals), k \in 0..MaxLen :
       Construct("x", HourlyMutable, "lux", v, List([i \in 1..k |-> i]))
  \/ \E v \in ItemArgs(FirstSlice, Vals) : __setitem__("x", FirstSlice, v)
  \/ \E st \in EmptyStatements : filter_by_conditional_statement("_", "x", st)
  \/ \E p \in PatternArgs : filter_by_pattern("_", "x", p)
  \/ \E ns \in FilterLists, st \in EmptyStatements : FilterCollectionsByStatement(ns, st)

SpecEmpty == Init /\ [][NextEmpty]_vars

\* SpecAligned: two variables; construction, item assignment and the alignment
\* predicates.
AlignedLists == { << "x" >>, << "x", "y" >>, << "y", "x" >>, << "x", "x", "y" >>,
                  << "x", "y", "x" >> }

NextAligned ==
  \/ \E n \in Names, cls \in { HourlyMutable, DailyMutable }, d \in DateTimeLists :
       Construct(n, cls, "lux", List([i \in DOMAIN d.items |-> 3]), d)
  \/ \E n \in Names : __setitem__(n, FirstSlice, List(<< >>))
  \/ \E a \in Names, b \in Names : IsCollectionAligned(a, b)
  \/ \E ns \in AlignedLists, r \in BOOLEAN : AreCollectionsAligned(ns, r)

SpecAligned == Init /\ [][NextAligned]_vars

\* the two variables of SpecMulti and SpecCompute: x holds any values on a
\* timeline 1..k, y holds 3s on a timeline 1..k or on the reversed timeline
ConstructTwo ==
  \/ \E k \in 0..MaxLen : \E v \in [1..k -> Vals] :
       Construct("x", HourlyMutable, "lux", List(v), List([i \in 1..k |-> i]))
  \/ \E d \in DateTimeLists :
       Construct("y", HourlyMutable, "lux", List([i \in DOMAIN d.items |-> 3]), d)

\* SpecMulti: two variables; construction, item assignment and the pattern of
\* a statement over a list of collections.
MultiLists == { << "x" >>, << "x", "y" >> }

MultiStatements == { St_gt, St_pow, St_ab }

NextMulti ==
  \/ ConstructTwo
  \/ \E n \in Names : __setitem__(n, FirstSlice, List(<< >>))
  \/ \E ns \in MultiLists, st \in MultiStatements :
       PatternFromCollectionsAndStatement(ns, st)

SpecMulti == Init /\ [][NextMulti]_vars

\* SpecCompute: two variables; construction, item assignment and aligned
\* function evaluation.
MultiInputs == { << CollArg("x"), CollArg("y") >>, << CollArg("x"), NumArg(3) >>,
                 << NumArg(3), CollArg("y") >>, << NumArg(3), NumArg(-2) >>,
                 << CollArg("x"), StrArg >> }

NextCompute ==
  \/ ConstructTwo
  \/ \E n \in Names : __setitem__(n, FirstSlice, List(<< >>))
  \/ \E f \in Functs, inputs \in MultiInputs : ComputeFunctionAligned(f, inputs, "lux")

SpecCompute == Init /\ [][NextCompute]_vars

\* ------------------------------------------------------------ the claims

\* the collections that exist: those the variables hold and those the last call
\* returned
Existing == { colls[n] : n \in { m \in Names : Exists(m) } }
              \cup { ret.out[i] : i \in DOMAIN ret.out }

\* C1: after construction and any sequence of public operations (values setter,
\* item assignment with an index or a slice key, unit conversion, duplicate,
\* get_aligned_collection), every collection that exists has as many values as
\* datetimes and at least one value, and a construction with mismatched lengths
\* fails.
C1_LengthInvariant ==
  /\ \A c \in Existing : Len(c.values) = Len(c.datetimes) /\ Len(c.values) >= 1
  /\ (ret.op = "__init__" /\ ret.nvalues # ret.ndatetimes) => ret.e # Ok

\* what a statement over a means for a value v
Meaning(statement, v) ==
  CASE statement = St_gt -> v > 2
    [] statement = St_pow -> v * v > 3
    [] statement = St_and -> v > 0 /\ v < 3

\* the statements over the single variable a
ValidStatements == { St_gt, St_pow, St_and }

\* the positions of a collection's values that satisfy a statement
Selected(c, statement) == { i \in DOMAIN c.values : Meaning(statement, c.values[i]) }

\* the samples of items at the positions of sel, in order
RECURSIVE Pick(_, _, _)
Pick(items, sel, i) ==
  IF i > Len(items) THEN << >>
  ELSE (IF i \in sel THEN << items[i] >> ELSE << >>) \o Pick(items, sel, i + 1)

\* C2: filter_by_conditional_statement with a valid statement over a that some
\* value satisfies returns a new collection holding exactly the (value,
\* datetime) pairs of the source whose value satisfies the statement, in their
\* original order, and leaves the source's values and datetimes unchanged.
C2_FilterByStatement ==
  (/\ ret.op = "filter_by_conditional_statement"
   /\ ret.args.statement \in ValidStatements
   /\ Selected(ret.pre, ret.args.statement) # {})
  => /\ ret.e = Ok
     /\ Len(ret.out) = 1
     /\ ret.out[1].values = Pick(ret.pre.values, Selected(ret.pre, ret.args.statement), 1)
     /\ ret.out[1].datetimes
          = Pick(ret.pre.datetimes, Selected(ret.pre, ret.args.statement), 1)
     /\ colls[ret.src].values = ret.pre.values
     /\ colls[ret.src].datetimes = ret.pre.datetimes

\* a statement names a variable other than the first k letters a, b, c, ...
InvalidVariable(statement, k) ==
  LET ts == Tokens(statement, 1)
  IN  \E i \in DOMAIN ts :
        /\ ts[i].t = "id"
        /\ ts[i].s \notin Keywords
        /\ ts[i].s \notin { << ascii_lowercase[j] >> : j \in 1..k }

\* C3: a statement that names an unassigned or misspelled variable is rejected
\* with the invalid-statement error before any sample is evaluated, by
\* filter_by_conditional_statement and by filter_collections_by_statement.
C3_InvalidVariableRejected ==
  /\ (ret.op = "filter_by_conditional_statement"
      /\ InvalidVariable(ret.args.statement, 1))
     => (ret.e = Raise("ValueError", << InvalidStatementMsg >>) /\ ret.args.evals = 0)
  /\ (ret.op = "filter_collections_by_statement"
      /\ InvalidVariable(ret.statement, Len(ret.srcs)))
     => (ret.e = Raise("ValueError", << InvalidStatementMsg >>) /\ ret.evals = 0)

\* what a statement over a and b means for values a and b
Meaning2(statement, a, b) ==
  IF statement = St_ab THEN a > b ELSE Meaning(statement, a)

\* the statements over the variables of k collections
ValidFor(k) == IF k >= 2 THEN ValidStatements \cup { St_ab } ELSE ValidStatements

\* aligned: same collection type, equal length, identical datetimes
Aligned(c, d) ==
  /\ c.ctype = d.ctype
  /\ Len(c.values) = Len(d.values)
  /\ c.datetimes = d.datetimes

\* the i-th value of the j-th collection of a list, the first's if there is no j-th
ValueOf(ns, j, i) == colls[ns[IF j <= Len(ns) THEN j ELSE 1]].values[i]

AlignmentError(e) ==
  e.err = "ValueError" /\ \E i \in DOMAIN e.msg : e.msg[i] = "is not aligned with"

\* C4: pattern_from_collections_and_statement on mutually aligned collections of
\* length N returns exactly N booleans, the i-th being the truth of the
\* statement with a, b bound to the i-th values of the 1st, 2nd collection; on
\* collections that are not aligned it raises the alignment error before any
\* sample is evaluated.
C4_PatternFromStatement ==
  (/\ ret.op = "pattern_from_collections_and_statement"
   /\ ret.statement \in ValidFor(Len(ret.srcs)))
  => IF \A j \in DOMAIN ret.srcs : Aligned(colls[ret.srcs[1]], colls[ret.srcs[j]])
     THEN /\ ret.e = Ok
          /\ ret.bools
          /\ Len(ret.val) = Len(colls[ret.srcs[1]].values)
          /\ \A i \in DOMAIN ret.val :
               ret.val[i] = Meaning2(ret.statement, ValueOf(ret.srcs, 1, i),
                                     ValueOf(ret.srcs, 2, i))
     ELSE AlignmentError(ret.e) /\ ret.evals = 0

\* the last call is a filter that retained no sample
RetainedNone ==
  CASE ret.op = "filter_by_conditional_statement" ->
         /\ ret.args.statement \in ValidStatements
         /\ Selected(ret.pre, ret.args.statement) = {}
    [] ret.op = "filter_collections_by_statement" ->
         ret.pe = Ok /\ \A i \in DOMAIN ret.pattern : ~ret.pattern[i]
    [] ret.op = "filter_by_pattern" ->
         /\ ret.args.pattern.kind = "list"
         /\ ret.args.pattern.items # << >>
         /\ \A i \in DOMAIN ret.pre.values :
              ~ret.args.pattern.items[((i - 1) % Len(ret.args.pattern.items)) + 1]
    [] OTHER -> FALSE

Filters == { "filter_by_conditional_statement", "filter_collections_by_statement",
             "filter_by_pattern" }

\* C5 as claimed: a statement filter or a pattern filter that retains no sample
\* returns no empty collection; it fails with the empty-construction error
\* re-raised under the context that no value meets the statement.
C5_EmptyResultContext ==
  /\ ret.op \in Filters => \A i \in DOMAIN ret.out : Len(ret.out[i].values) >= 1
  /\ RetainedNone => /\ ret.e.err = "AssertionError"
                     /\ Len(ret.e.msg) >= 2
                     /\ ret.e.msg[1] = NoValueMsg

\* C5 as amended: a filter that retains no sample returns no empty collection
\* and fails. The statement filters fail with the constructor's error re-raised
\* under the context that no value meets the statement (but
\* filter_collections_by_statement on collections holding no value at all fails
\* with ZeroDivisionError); filter_by_pattern fails with the constructor's
\* error as it is, without that context.
C5_EmptyResultFails ==
  /\ ret.op \in Filters => \A i \in DOMAIN ret.out : Len(ret.out[i].values) >= 1
  /\ RetainedNone =>
       /\ ret.out = << >>
       /\ CASE ret.op = "filter_by_pattern" ->
                 ret.e \in { Raise("AssertionError", << EmptyMsg >>),
                             Raise("AssertionError", << LengthMsg >>) }
            [] ret.op = "filter_collections_by_statement" /\ ret.pattern = << >> ->
                 ret.e.err = "ZeroDivisionError"
            [] OTHER -> ret.e = Raise("AssertionError", << NoValueMsg, EmptyMsg >>)

\* C5's case: filter_by_pattern retained nothing and failed with the bare
\* empty-construction error
C5_Witness ==
  /\ ret.op = "filter_by_pattern"
  /\ RetainedNone
  /\ Len(ret.pre.values) = Len(ret.pre.datetimes)
  /\ ret.e = Raise("AssertionError", << EmptyMsg >>)

\* the positions a pattern keeps of a collection's values
KeptBy(c, pattern) ==
  { i \in DOMAIN c.values : pattern[((i - 1) % Len(pattern)) + 1] }

\* C6: filter_by_pattern with a non-empty boolean pattern of length L on a
\* collection of length N keeps exactly the samples at the positions i with
\* pattern[i mod L] true, in order, of values and of datetimes alike; a pattern
\* shorter than the collection repeats.
C6_FilterByPattern ==
  (/\ ret.op = "filter_by_pattern"
   /\ ret.args.pattern.kind = "list"
   /\ ret.args.pattern.items # << >>
   /\ KeptBy(ret.pre, ret.args.pattern.items) # {})
  => /\ ret.e = Ok
     /\ Len(ret.out) = 1
     /\ ret.out[1].values
          = Pick(ret.pre.values, KeptBy(ret.pre, ret.args.pattern.items), 1)
     /\ ret.out[1].datetimes
          = Pick(ret.pre.datetimes, KeptBy(ret.pre, ret.args.pattern.items), 1)

\* C7: is_collection_aligned(x, y) is true iff x and y have the same collection
\* type, equal length and identical datetimes; it is reflexive and symmetric.
C7_IsCollectionAligned ==
  /\ ret.op = "is_collection_aligned"
     => ret.val = Aligned(colls[ret.srcs[1]], colls[ret.srcs[2]])
  /\ \A a \in Names, b \in Names :
       (Exists(a) /\ Exists(b))
       => /\ is_collection_aligned(colls[a], colls[a])
          /\ is_collection_aligned(colls[a], colls[b])
               = is_collection_aligned(colls[b], colls[a])

\* C7's case: two collections of one type and one length whose datetimes differ
\* were compared
C7_Witness ==
  /\ ret.op = "is_collection_aligned"
  /\ colls[ret.srcs[1]].ctype = colls[ret.srcs[2]].ctype
  /\ Len(colls[ret.srcs[1]].values) = Len(colls[ret.srcs[2]].values)
  /\ colls[ret.srcs[1]].datetimes # colls[ret.srcs[2]].datetimes
  /\ ret.val = FALSE

\* every pair of the collections of a list is aligned
AllPairsAligned(ns) ==
  \A i \in DOMAIN ns, j \in DOMAIN ns : Aligned(colls[ns[i]], colls[ns[j]])

\* C8: are_collections_aligned returns true exactly when every pair of the
\* list is aligned; when some element is not aligned with the first it raises
\* the alignment error if raise_exception is true and returns false without
\* raising if it is false; on a list of one element it returns true.
C8_AreCollectionsAligned ==
  ret.op = "are_collections_aligned"
  => /\ IF AllPairsAligned(ret.srcs) THEN ret.e = Ok /\ ret.val = TRUE
        ELSE IF ret.raise_exception THEN AlignmentError(ret.e)
        ELSE ret.e = Ok /\ ret.val = FALSE
     /\ Len(ret.srcs) = 1 => (ret.e = Ok /\ ret.val = TRUE)

\* C8's case: a list of three whose second element is aligned with the first
\* and whose third is not made the call raise
C8_Witness ==
  /\ ret.op = "are_collections_aligned"
  /\ Len(ret.srcs) = 3
  /\ Aligned(colls[ret.srcs[1]], colls[ret.srcs[2]])
  /\ ~Aligned(colls[ret.srcs[1]], colls[ret.srcs[3]])
  /\ ret.raise_exception
  /\ AlignmentError(ret.e)

\* C9: get_aligned_collection on a collection of length N, for every setting of
\* mutable: a scalar gives a collection of N values equal to it, a sequence of
\* length N a collection of those values, a sequence of another length the
\* length error; a returned collection has the source's datetimes and is
\* aligned with the source.
C9_GetAlignedCollection ==
  (ret.op = "get_aligned_collection" /\ ret.args.data_type \in { "None" } \cup DataTypes)
  => LET N == Len(ret.pre.values)
         value == ret.args.value
     IN  IF IsSequence(value) /\ Len(value.items) # N
         THEN ret.e = Raise("AssertionError", << AlignedLengthMsg >>)
         ELSE /\ ret.e = Ok
              /\ Len(ret.out) = 1
              /\ ret.out[1].values
                   = IF IsSequence(value) THEN value.items
                     ELSE [i \in 1..N |-> value.items[1]]
              /\ ret.out[1].datetimes = ret.pre.datetimes
              /\ Aligned(ret.out[1], ret.pre)
              /\ ret.out[1].mutable = CASE ret.args.mutable = "True" -> TRUE
                                        [] ret.args.mutable = "False" -> FALSE
                                        [] OTHER -> ret.pre.mutable

\* the collection inputs of a call of compute_function_aligned
CollInputs(inputs) == { j \in DOMAIN inputs : inputs[j].kind = "coll" }

\* the i-th argument list of the function
ArgsAt(inputs, i) ==
  [j \in DOMAIN inputs |-> IF inputs[j].kind = "coll" THEN colls[inputs[j].name].values[i]
                           ELSE inputs[j].items[1]]

\* C10: compute_function_aligned with no collection among its inputs returns
\* the function of the scalars; with collections, all mutually aligned, it
\* returns a new collection aligned with the first of them whose i-th value is
\* the function of the i-th value of each collection and of each scalar, and
\* it leaves the collections' values unchanged.
C10_ComputeFunctionAligned ==
  (/\ ret.op = "compute_function_aligned"
   /\ \A j \in DOMAIN ret.inputs : ret.inputs[j].kind # "str"
   /\ \A j \in CollInputs(ret.inputs), k \in CollInputs(ret.inputs) :
        Aligned(colls[ret.inputs[j].name], colls[ret.inputs[k].name]))
  => /\ ret.e = Ok
     /\ colls = ret.pre
     /\ IF CollInputs(ret.inputs) = {}
        THEN ret.scalar /\ ret.out = << >>
             /\ ret.val = Apply(ret.funct, [j \in DOMAIN ret.inputs |->
                                              ret.inputs[j].items[1]])
        ELSE LET first == colls[ret.inputs[CHOOSE j \in CollInputs(ret.inputs) :
                                   \A k \in CollInputs(ret.inputs) : j <= k].name]
             IN  /\ ~ret.scalar /\ Len(ret.out) = 1
                 /\ Aligned(ret.out[1], first)
                 /\ Len(ret.out[1].values) = Len(first.values)
                 /\ \A i \in DOMAIN first.values :
                      ret.out[1].values[i] = Apply(ret.funct, ArgsAt(ret.inputs, i))

\* ---------------------------------------- specifications of derivation

\* the dicts callers make for one sample 3 at datetime 1
MadeDict(keys, vap) ==
  DictOf(keys, [data_type |-> "Illuminance", unit |-> "lux"], List(<< 3 >>),
         List(<< 1 >>), vap)

\* the derivations of y from x
DeriveY ==
  \/ duplicate("y", "x")
  \/ \E u \in Units : ToUnit("y", "x", u)
  \/ ToIp("y", "x")
  \/ ToSi("y", "x")
  \/ to_mutable("y", "x")
  \/ to_immutable("y", "x")
  \/ filter_by_conditional_statement("y", "x", St_gt)
  \/ filter_by_pattern("y", "x", List(<< TRUE >>))
  \/ get_aligned_collection("y", "x", Scalar(3), "None", "None", "None")

\* no value of the collection n holds exceeds MaxValue
Bounded(n) == Exists(n) /\ \A i \in DOMAIN colls[n].values : colls[n].values[i] <= MaxValue

\* SpecDerive: x is constructed or read from a dict, y is derived from x, and
\* either is converted in place.
NextDerive ==
  \/ \E k \in 1..MaxLen :
       Construct("x", HourlyMutable, "lux", List([i \in 1..k |-> 3]),
                 List([i \in 1..k |-> i]))
  \/ FromDict("x", HourlyMutable, MadeDict(DictKeys, TRUE), "")
  \/ __setitem__("x", FirstSlice, List(<< >>))
  \/ DeriveY
  \/ \E n \in Names, u \in Units : Bounded(n) /\ convert_to_unit(n, u)
  \/ \E n \in Names : Bounded(n) /\ convert_to_ip(n)
  \/ \E n \in Names : Bounded(n) /\ convert_to_si(n)

SpecDerive == Init /\ [][NextDerive]_vars

\* ------------------------------------------------------------ the claims

Derivations == { "duplicate", "to_unit", "to_ip", "to_si", "to_mutable", "to_immutable",
                 "filter_by_conditional_statement", "filter_by_pattern",
                 "get_aligned_collection" }

Conversions == { "convert_to_unit", "convert_to_ip", "convert_to_si" }

\* the unit of the header of the collection a variable holds
UnitOf(n) == hdrs[colls[n].header].unit

\* C11: every operation that derives a new collection from an existing one
\* returns a collection whose header is another instance than the source's,
\* and an in-place conversion of one collection leaves the unit of the header
\* of every other collection as it was.
C11_HeadersNotShared ==
  [][/\ (ret'.op \in Derivations /\ ret'.e = Ok)
        => ret'.out[1].header # ret'.pre.header
     /\ ret'.op \in Conversions
        => \A m \in Names \ { ret'.src } : Exists(m) => UnitOf(m)' = UnitOf(m)]_vars

\* C15: a derived collection carries the value of validated_a_period its
\* source had when the operation was called, and the source keeps that value.
C15_ValidatedPropagated ==
  (ret.op \in Derivations /\ ret.e = Ok)
    => /\ ret.out[1].validated_a_period = ret.pre.validated_a_period
       /\ colls[ret.src].validated_a_period = ret.pre.validated_a_period

\* SpecPure: x is constructed, y is made from x by duplicate, to_unit, to_ip
\* or to_si, and y is then mutated through the values setter, item and slice
\* assignment and the in-place conversions.
NextPure ==
  \/ \E u \in Units, k \in 1..MaxLen :
       Construct("x", HourlyMutable, u, List([i \in 1..k |-> 3]),
                 List([i \in 1..k |-> i]))
  \/ duplicate("y", "x")
  \/ \E u \in Units : ToUnit("y", "x", u)
  \/ ToIp("y", "x")
  \/ ToSi("y", "x")
  \/ \E k \in 1..MaxLen : SetValues("y", List([i \in 1..k |-> 7]))
  \/ \E key \in IndexKeys \cup { FirstSlice } :
       \E v \in ItemArgs(key, { 7 }) : __setitem__("y", key, v)
  \/ \E u \in Units : Bounded("y") /\ convert_to_unit("y", u)
  \/ Bounded("y") /\ convert_to_ip("y")
  \/ Bounded("y") /\ convert_to_si("y")

SpecPure == Init /\ [][NextPure]_vars

PureOps == { "duplicate", "to_unit", "to_ip", "to_si" }

Mutations == { "values.setter", "__setitem__" } \cup Conversions

\* the collection x holds and the content of its header are left as they were
Untouched ==
  /\ colls'["x"] = colls["x"]
  /\ Exists("x") => hdrs'[colls["x"].header] = hdrs[colls["x"].header]

\* C12: a call of duplicate, to_unit, to_ip or to_si on x leaves the values,
\* the datetimes and the header unit of x as they were, and so does every
\* later mutation of the collection it returned (values setter, item
\* assignment, in-place conversion).
C12_OriginalUntouched ==
  [][/\ ret'.op \in PureOps => Untouched
     /\ (ret'.op \in Mutations /\ ret'.src = "y") => Untouched]_vars

\* the returned collection was converted to another unit than its source has
C12_Witness ==
  /\ ret.op \in Conversions /\ ret.src = "y"
  /\ Exists("x") /\ Exists("y")
  /\ UnitOf("y") # UnitOf("x")
  /\ colls["y"].values # colls["x"].values

\* y = type(x).from_dict(d) for the dict d the last x.to_dict() returned
RoundTrip ==
  /\ ret.op = "to_dict"
  /\ FromDict("y", ClassOf(colls[ret.src]), ret.d, ret.src)

\* SpecDict: x is constructed or read from a dict the caller made, with any
\* of the keys missing; its values are read through the values property and
\* through to_dict, the object handed out is modified in place, and the dict
\* is read back by from_dict.
NextDict ==
  \/ \E k \in 1..MaxLen :
       Construct("x", HourlyMutable, "lux", List([i \in 1..k |-> 3]),
                 List([i \in 1..k |-> i]))
  \/ \E keys \in SUBSET DictKeys, vap \in BOOLEAN :
       FromDict("x", HourlyMutable, MadeDict(keys, vap), "")
  \/ \E v \in ItemArgs(FirstSlice, { 3 }) : __setitem__("x", FirstSlice, v)
  \/ ReadValues("x")
  \/ ToDict("x")
  \/ \E how \in { "setitem", "delslice" } : MutateHanded(how, 7)
  \/ RoundTrip

SpecDict == Init /\ [][NextDict]_vars

\* C13: modifying an object the collection handed out when its values were
\* read (the result of the values property, the 'values' entry of to_dict)
\* leaves the stored values of the collection as they were.
C13_ReadsAreCopies ==
  ret.op = "handed.mutate" => colls[ret.src].values = ret.before

RequiredKeys == { "header", "values", "datetimes" }

\* C19: from_dict(to_dict(c)) succeeds and gives a collection with the
\* values, datetimes and validated_a_period of c; from_dict on a dict without
\* 'header', 'values' or 'datetimes' fails with an error that names a missing
\* key; a dict without 'validated_a_period' gives the flag False.
C19_DictRoundTrip ==
  ret.op = "from_dict" =>
    /\ ret.of \in Names =>
          /\ ret.e = Ok
          /\ ret.out[1].values = ret.pre.values
          /\ ret.out[1].datetimes = ret.pre.datetimes
          /\ ret.out[1].validated_a_period = ret.pre.validated_a_period
    /\ ~(RequiredKeys \subseteq ret.keys)
          => /\ ret.e.err = "AssertionError"
             /\ ret.e.msg[2] \in RequiredKeys \ ret.keys
             /\ ret.out = << >>
    /\ (ret.e = Ok /\ "validated_a_period" \notin ret.keys)
          => ~ret.out[1].validated_a_period

\* what is passed as values and as datetimes: lists and a tuple of up to
\* MaxLen items, a str, a number, a dict
CheckArgs ==
  { List([i \in 1..k |-> i]) : k \in 0..MaxLen }
    \cup { [kind |-> "tuple", items |-> << 1 >>], AStr, AnInt, ADict }

\* SpecCheck: x is constructed from arguments of every kind, with a Header
\* and with something else as header, and values of every kind are assigned.
NextCheck ==
  \/ \E u \in Units, v \in CheckArgs, d \in CheckArgs :
       Construct("x", HourlyMutable, u, v, d)
  \/ \E v \in CheckArgs, d \in CheckArgs : ConstructNonHeader("x", HourlyMutable, v, d)
  \/ \E v \in CheckArgs : SetValues("x", v)

SpecCheck == Init /\ [][NextCheck]_vars

SequenceKinds == { "list", "tuple" }

\* C14: the constructor fails, and binds nothing, when the header is not a
\* Header or the datetimes are not a list or tuple; the values setter fails
\* exactly when the new values are not a list or tuple, are not as many as
\* the datetimes, or are empty; a failed assignment leaves every collection
\* and every header as it was.
C14_ChecksAndFrame ==
  [][/\ (ret'.op = "__init__" /\ (~ret'.isheader \/ ret'.dkind \notin SequenceKinds))
        => ret'.e # Ok /\ colls' = colls
     /\ ret'.op = "values.setter"
        => /\ ret'.e # Ok <=> \/ ret'.values.kind \notin SequenceKinds
                               \/ Len(ret'.values.items) # Len(colls[ret'.src].datetimes)
                               \/ ret'.values.items = << >>
           /\ ret'.e # Ok => colls' = colls /\ hdrs' = hdrs
           /\ ret'.e = Ok => colls'[ret'.src].values = ret'.values.items]_vars

\* an assignment of a list that is not as long as the datetimes has failed
C14_Witness ==
  /\ ret.op = "values.setter" /\ ret.e # Ok
  /\ ret.values.kind = "list" /\ ret.values.items # << >>
  /\ Len(ret.values.items) # Len(colls[ret.src].datetimes)
  /\ Len(colls[ret.src].values) = Len(colls[ret.src].datetimes)

\* the illuminances collections are built from
ConvertVals == { 3, 8, 50 }

\* SpecConvert: x is constructed in either unit and converted in place, any
\* number of times.
NextConvert ==
  \/ \E u \in Units, k \in 1..MaxLen :
       \E v \in [1..k -> ConvertVals] :
         Construct("x", HourlyMutable, u, List(v), List([i \in 1..k |-> i]))
  \/ \E u \in Units : convert_to_unit("x", u)
  \/ convert_to_ip("x")
  \/ convert_to_si("x")

SpecConvert == Init /\ [][NextConvert]_vars

\* the unit of the header of the collection n holds after the step
UnitAfter(n) == hdrs'[colls'[n].header].unit

\* the step converts the collection that ret'.src names
Converts(op) == ret'.op = op /\ Exists(ret'.src)

\* C16: convert_to_unit(u) stores the data type's conversion of the old
\* values from the old unit to u and sets header.unit to u; convert_to_ip and
\* convert_to_si leave header.unit 'fc' and 'lux' from either unit; the same
\* convert_to_ip or convert_to_si called again changes nothing; no
\* conversion changes the number of values or the datetimes.
C16_ConvertInPlace ==
  [][/\ Converts("convert_to_unit")
        => /\ colls'[ret'.src].values
                = to_unit(colls[ret'.src].values, ret'.unit, UnitOf(ret'.src))
           /\ UnitAfter(ret'.src) = ret'.unit
     /\ Converts("convert_to_ip") => UnitAfter(ret'.src) = "fc"
     /\ Converts("convert_to_si") => UnitAfter(ret'.src) = "lux"
     /\ \A op \in { "convert_to_ip", "convert_to_si" } :
          (ret.op = op /\ Converts(op) /\ ret'.src = ret.src)
            => colls' = colls /\ hdrs' = hdrs
     /\ \A op \in Conversions :
          Converts(op)
            => /\ Len(colls'[ret'.src].values) = Len(colls[ret'.src].values)
               /\ colls'[ret'.src].datetimes = colls[ret'.src].datetimes]_vars

\* a collection built in fc was converted to lux: 3 fc are 32 lux
C16_Witness ==
  /\ ret.op = "convert_to_si"
  /\ UnitOf(ret.src) = "lux"
  /\ colls[ret.src].values[1] = 32

\* ------------------------------------------------------------- statistics

\* list.insert of x into the sorted list s by key[x], behind every item that
\* does not come after it (the sort is stable; with reverse=True items of
\* equal key keep their order too)
RECURSIVE InsertKey(_, _, _, _)
InsertKey(x, s, key, reverse) ==
  IF s = << >> THEN << x >>
  ELSE IF (IF reverse THEN key[Head(s)] >= key[x] ELSE key[Head(s)] <= key[x])
  THEN << Head(s) >> \o InsertKey(x, Tail(s), key, reverse)
  ELSE << x >> \o s

\* sorted(items, key=lambda k: key[k], reverse=reverse)
RECURSIVE SortedKey(_, _, _)
SortedKey(items, key, reverse) ==
  IF items = << >> THEN << >>
  ELSE InsertKey(items[Len(items)],
                 SortedKey(SubSeq(items, 1, Len(items) - 1), key, reverse),
                 key, reverse)

\* sorted(values, reverse=reverse)
sorted(values, reverse) ==
  LET at == SortedKey([i \in 1..Len(values) |-> i], values, reverse)
  IN  [j \in 1..Len(values) |-> values[at[j]]]

\* sorted(list(xrange(len(values))), key=lambda k: values[k], reverse=reverse)
sorted_index(values, reverse) ==
  LET at == SortedKey([i \in 1..Len(values) |-> i], values, reverse)
  IN  [j \in 1..Len(values) |-> at[j] - 1]

IndexErrorOf == Raise("IndexError", << "list index out of range" >>)

\* _percentile(values, percent): [e, r], r one hundred times the value
\* returned. k = (len(vals) - 1) * (percent / 100) is kept as kn = 100 * k,
\* floor and ceil are taken of kn / 100, and the weights c - k and k - f are
\* kept as hundredths.
_percentile(values, percent) ==
  LET vals == sorted(values, FALSE)
      kn == (Len(vals) - 1) * percent
      f == kn \div 100
      c == -((-kn) \div 100)
      at(i) == Index(i, Len(vals))
  IN  IF f = c
      THEN IF at(f) = 0 THEN [e |-> IndexErrorOf, r |-> 0]
           ELSE [e |-> Ok, r |-> 100 * vals[at(f)]]
      ELSE IF at(f) = 0 \/ at(c) = 0 THEN [e |-> IndexErrorOf, r |-> 0]
      ELSE [e |-> Ok, r |-> vals[at(f)] * (100 * c - kn) + vals[at(c)] * (kn - 100 * f)]

\* self.get_percentile(percentile)
get_percentile(c, percentile) ==
  IF ~(0 <= percentile /\ percentile <= 100)
  THEN [e |-> Raise("AssertionError", << "percentile must be between 0 and 100" >>),
        r |-> 0]
  ELSE _percentile(c.values, percentile)

\* self.median
median(c) == _percentile(c.values, 50)

\* n.get_percentile(percentile)
GetPercentile(n, percentile) ==
  /\ Exists(n)
  /\ Commit(colls, hdrs,
            [op |-> "get_percentile", e |-> get_percentile(colls[n], percentile).e,
             out |-> << >>, src |-> n, p |-> percentile,
             r |-> get_percentile(colls[n], percentile).r])

\* n.median
Median(n) ==
  /\ Exists(n)
  /\ Commit(colls, hdrs,
            [op |-> "median", e |-> median(colls[n]).e, out |-> << >>, src |-> n,
             p |-> 50, r |-> median(colls[n]).r])

\* the two assertions on count of get_highest_values and get_lowest_values
CountError(c, count) ==
  IF ~(count <= Len(c.values))
  THEN Raise("AssertionError", << "count must be smaller than or equal to values length" >>)
  ELSE IF ~(count > 0)
  THEN Raise("AssertionError", << "count must be greater than 0" >>)
  ELSE Ok

\* the extreme values with the indices sorted the other way round
get_extreme_values_IndexUnreversed(c, count, reverse) ==
  IF CountError(c, count) # Ok
  THEN [e |-> CountError(c, count), values |-> << >>, indices |-> << >>]
  ELSE [e |-> Ok,
        values |-> SubSeq(sorted(c.values, reverse), 1, count),
        indices |-> SubSeq(sorted_index(c.values, ~reverse), 1, count)]

\* get_highest_values (reverse) and get_lowest_values: [e, values, indices]
get_extreme_values(c, count, reverse) ==
  IF CountError(c, count) # Ok
  THEN [e |-> CountError(c, count), values |-> << >>, indices |-> << >>]
  ELSE [e |-> Ok,
        values |-> SubSeq(sorted(c.values, reverse), 1, count),
        indices |-> SubSeq(sorted_index(c.values, reverse), 1, count)]

get_highest_values(c, count) == get_extreme_values(c, count, TRUE)

get_lowest_values(c, count) == get_extreme_values(c, count, FALSE)

\* n.get_highest_values(count)
GetHighestValues(n, count) ==
  /\ Exists(n)
  /\ Commit(colls, hdrs,
            [op |-> "get_highest_values", e |-> get_highest_values(colls[n], count).e,
             out |-> << >>, src |-> n, count |-> count,
             values |-> get_highest_values(colls[n], count).values,
             indices |-> get_highest_values(colls[n], count).indices])

\* n.get_lowest_values(count)
GetLowestValues(n, count) ==
  /\ Exists(n)
  /\ Commit(colls, hdrs,
            [op |-> "get_lowest_values", e |-> get_lowest_values(colls[n], count).e,
             out |-> << >>, src |-> n, count |-> count,
             values |-> get_lowest_values(colls[n], count).values,
             indices |-> get_lowest_values(colls[n], count).indices])

\* the values statistics are taken of
StatVals == { 1, 3, 5, 9 }

\* the percentiles asked for: percent / 100 is exact for each of them
Percents == { -25, 0, 25, 50, 75, 100, 125 }

\* SpecStats: x is constructed once with up to MaxStatLen values, values are
\* removed by slice assignment, and the statistics of x are read.
NextStats ==
  \/ /\ ~Exists("x")
     /\ \E k \in 1..MaxStatLen :
          \E v \in [1..k -> StatVals] :
            Construct("x", HourlyMutable, "lux", List(v), List([i \in 1..k |-> i]))
  \/ __setitem__("x", FirstSlice, List(<< >>))
  \/ \E q \in Percents : GetPercentile("x", q)
  \/ Median("x")
  \/ \E count \in -1..(MaxStatLen + 1) : GetHighestValues("x", count)
  \/ \E count \in -1..(MaxStatLen + 1) : GetLowestValues("x", count)

SpecStats == Init /\ [][NextStats]_vars

\* the j-th smallest of the values, j in 1..Len(values)
OrderStat(values, j) ==
  CHOOSE v \in { values[i] : i \in DOMAIN values } :
    /\ Cardinality({ i \in DOMAIN values : values[i] < v }) < j
    /\ j <= Cardinality({ i \in DOMAIN values : values[i] <= v })

\* one hundred times the linear interpolation between the order statistics
\* next to rank (N - 1) * p / 100, ranks counted from 0
Interpolated(values, q) ==
  LET kn == (Len(values) - 1) * q
      f == kn \div 100
      w == kn % 100
  IN  IF w = 0 THEN 100 * OrderStat(values, f + 1)
      ELSE OrderStat(values, f + 1) * (100 - w) + OrderStat(values, f + 2) * w

\* C17: for p in [0, 100] get_percentile(p) returns the linear interpolation
\* between the order statistics next to rank (N - 1) * p / 100, which is the
\* minimum for p = 0, the maximum for p = 100 and the median for p = 50, and
\* is not smaller than get_percentile of a smaller p; p outside [0, 100] is
\* rejected.
C17_Percentile ==
  ret.op = "get_percentile" =>
    LET c == colls[ret.src]
        N == Len(c.values)
    IN  IF ret.p < 0 \/ ret.p > 100 THEN ret.e.err = "AssertionError"
        ELSE /\ ret.e = Ok
             /\ ret.r = Interpolated(c.values, ret.p)
             /\ ret.p = 0 => ret.r = 100 * OrderStat(c.values, 1)
             /\ ret.p = 100 => ret.r = 100 * OrderStat(c.values, N)
             /\ ret.p = 50 => ret.r = median(c).r
             /\ \A q \in Percents :
                  (0 <= q /\ q <= ret.p) => get_percentile(c, q).r <= ret.r

\* C18: for 0 < count <= N get_highest_values (get_lowest_values) returns
\* the count largest (smallest) values from the largest (smallest) on, and as
\* many pairwise different indices, the j-th of which is where the j-th
\* returned value is stored; any other count fails with an AssertionError
\* and returns nothing.
C18_ExtremeValues ==
  ret.op \in { "get_highest_values", "get_lowest_values" } =>
    LET stored == colls[ret.src].values
        N == Len(stored)
    IN  IF 0 < ret.count /\ ret.count <= N
        THEN /\ ret.e = Ok
             /\ Len(ret.values) = ret.count /\ Len(ret.indices) = ret.count
             /\ \A j \in 1..ret.count :
                  /\ ret.values[j] = IF ret.op = "get_highest_values"
                                     THEN OrderStat(stored, N + 1 - j)
                                     ELSE OrderStat(stored, j)
                  /\ ret.indices[j] \in 0..(N - 1)
                  /\ stored[ret.indices[j] + 1] = ret.values[j]
             /\ \A i, j \in 1..ret.count : i # j => ret.indices[i] # ret.indices[j]
        ELSE /\ ret.e.err = "AssertionError"
             /\ ret.values = << >> /\ ret.indices = << >>

\* the two highest of four values, two of them equal, were returned
C18_Witness ==
  /\ ret.op = "get_highest_values" /\ ret.e = Ok /\ ret.count = 2
  /\ colls[ret.src].values = << 5, 9, 3, 9 >>
  /\ ret.values = << 9, 9 >> /\ ret.indices = << 1, 3 >>

\* a str of n characters as a pattern: every character is true
StrPattern(n) == [kind |-> "str", items |-> [i \in 1..n |-> TRUE]]

\* a dict of n str keys as a pattern
DictPattern(n) == [kind |-> "dict", items |-> [i \in 1..n |-> TRUE]]

\* patterns that are no list: a number, strs and dicts of up to MaxLen items
OtherPatterns ==
  { AnInt } \cup { StrPattern(n) : n \in 0..MaxLen } \cup { DictPattern(n) : n \in 0..MaxLen }

\* SpecPattern: x is constructed and filtered by patterns of every kind.
NextPattern ==
  \/ \E u \in Units, k \in 1..MaxLen :
       \E v \in [1..k -> Vals] :
         Construct("x", HourlyMutable, u, List(v), List([i \in 1..k |-> i]))
  \/ \E pattern \in PatternArgs \cup OtherPatterns : filter_by_pattern("y", "x", pattern)

SpecPattern == Init /\ [][NextPattern]_vars

\* C20: filter_by_pattern with a pattern that is no list or tuple (a number,
\* a str, a dict) raises TypeError and returns no collection.
C20_PatternTypeError ==
  (ret.op = "filter_by_pattern" /\ ret.args.pattern.kind \notin SequenceKinds)
    => ret.e.err = "TypeError" /\ ret.out = << >>

\* what c.filter_by_conditional_statement(statement) gives: [e, vals, dts]
SingleFilter(c, statement) ==
  LET f == _filter_by_statement(c, statement)
      r == __init__(Registry(TRUE, c.ctype), TRUE, 1, List(f.vals), List(f.dts))
  IN  IF f.e # Ok THEN f
      ELSE IF r.e # Ok THEN [e |-> r.e, vals |-> << >>, dts |-> << >>]
      ELSE [e |-> Ok, vals |-> r.coll.values, dts |-> r.coll.datetimes]

\* C21: for a valid statement over a, filter_collections_by_statement([c], s)
\* returns a collection exactly when c.filter_by_conditional_statement(s)
\* does, and then one collection with the same values and datetimes.
C21_FiltersAgree ==
  (/\ ret.op = "filter_collections_by_statement"
   /\ Len(ret.pres) = 1
   /\ ret.statement \in ValidStatements)
  => LET single == SingleFilter(ret.pres[1], ret.statement)
     IN  /\ ret.e = Ok <=> single.e = Ok
         /\ ret.e = Ok => /\ Len(ret.out) = 1
                          /\ ret.out[1].values = single.vals
                          /\ ret.out[1].datetimes = single.dts

\* the lists of collections filtered together
FilterAllLists == { << "x" >>, << "x", "y" >>, << "y", "x" >> }

\* the statements they are filtered by
FilterAllStatements == { St_gt, St_ab }

\* SpecFilterAll: x and y are constructed, values are removed by slice
\* assignment, and lists of them are filtered by one statement.
NextFilterAll ==
  \/ ConstructTwo
  \/ \E n \in Names : __setitem__(n, FirstSlice, List(<< >>))
  \/ \E ns \in FilterAllLists, st \in FilterAllStatements :
       FilterCollectionsByStatement(ns, st)

SpecFilterAll == Init /\ [][NextFilterAll]_vars

\* the collections cs are aligned with one another
MutuallyAligned(cs) == \A i \in DOMAIN cs, j \in DOMAIN cs : Aligned(cs[i], cs[j])

\* C22: what filter_collections_by_statement returns for k mutually aligned
\* collections is k collections, the j-th of the type of the j-th input and
\* holding the values and datetimes of the j-th input at one set of positions
\* that is the same for all of them, in their order; the returned collections
\* are aligned with one another.
C22_FilterAllAligned ==
  (/\ ret.op = "filter_collections_by_statement"
   /\ ret.e = Ok
   /\ MutuallyAligned(ret.pres))
  => /\ Len(ret.out) = Len(ret.pres)
     /\ MutuallyAligned(ret.out)
     /\ \E sel \in SUBSET (1..Len(ret.pres[1].values)) :
          \A j \in DOMAIN ret.pres :
            /\ ret.out[j].ctype = ret.pres[j].ctype
            /\ ret.out[j].values = Pick(ret.pres[j].values, sel, 1)
            /\ ret.out[j].datetimes = Pick(ret.pres[j].datetimes, sel, 1)

\* two collections with different values were filtered to their second sample
C22_Witness ==
  /\ ret.op = "filter_collections_by_statement" /\ ret.e = Ok
  /\ Len(ret.pres) = 2
  /\ ret.pres[1].values = << 3, 3 >> /\ ret.pres[2].values = << 3, -2 >>
  /\ ret.out[1].values = << 3 >> /\ ret.out[2].values = << -2 >>
  /\ ret.out[1].datetimes = << 2 >> /\ ret.out[2].datetimes = << 2 >>

====
